---------------------------- MODULE Spec2Model ----------------------------
(***************************************************************************)
(* Model of the AutoWriter document-synthesis engine (exportDocument and   *)
(* generateXMLTable of the React application).                             *)
(*                                                                         *)
(* Text is a sequence of one-character atoms.  XML content is a sequence   *)
(* of markup tokens; a text run <w:t>..</w:t> is one token that carries    *)
(* its character sequence.                                                 *)
(***************************************************************************)
EXTENDS Integers, Sequences, FiniteSets, TLC

VARIABLES
    platform,        \* "electron" | "android" | "web": where the application runs
    templateBuffer,  \* the bytes of the template file: an archive or not
    formData,        \* the form
    addedImages,     \* the pictures added to the letter
    isExporting,     \* the loading state that disables the export buttons
    exportCancelledRef, \* useRef(false): the cancellation flag of the window
    calls,           \* the calls of exportDocument: position and local variables
    shaperPc,        \* "input" | "shaped": position of the text shaper run
    shaperText,      \* the raw string handed to fixArabicText
    shaperResult,    \* the string fixArabicText returned
    keysPc,          \* "input" | "replaced": position of the literal pass run
    keysList,        \* the literal keys, in insertion order
    keysText,        \* the text of the run searched for keys
    keysResult,      \* the text of the run after the replacement
    exportCancelled,       \* main.cjs: let exportCancelled
    currentExportProcess,  \* main.cjs: the conversion whose process is tracked, 0 for null
    conversions,           \* the invocations of the two conversion handlers
    loaded,          \* LOKPlugin.load() has run
    converter,       \* LOKPlugin.converter: "null", or a converter "ready" or "notReady"
    initAttempted,   \* LOKPlugin.initAttempted
    executor,        \* the tasks of the single-thread executor, the running one first
    pluginCalls,     \* the calls of the plugin methods
    mainLooper,      \* the messages posted to the main looper, in order
    dispatched,      \* how many of them the main looper has run
    processedIntentUris,      \* MainActivity.processedIntentUris
    pendingSharedImagePaths,  \* LOKPlugin.pendingSharedImagePaths
    skippedSharedCount,       \* LOKPlugin.skippedSharedCount
    cacheFiles,      \* the shared files that exist in the cache directory
    handling,        \* the main thread inside handleIntent: the intent, the URIs to go
    delivered,       \* how many intents reached onCreate and onNewIntent
    passedUris,      \* the URIs passed to processSharedUri, in order
    opened,          \* the URIs whose stream processSharedUri opened, with the file
    mimeSkips,       \* the files processSharedUri skipped since the last report
    sharedResults,   \* what the calls of getSharedImage resolved with, in order
    job              \* a run of one of the LOKConverter methods that go through a PDF

exportVars == <<platform, templateBuffer, formData, addedImages, isExporting,
                exportCancelledRef, calls>>

shaperVars == <<shaperPc, shaperText, shaperResult>>

keysVars == <<keysPc, keysList, keysText, keysResult>>

renderVars == <<exportCancelled, currentExportProcess, conversions>>

lokVars == <<loaded, converter, initAttempted, executor, pluginCalls, mainLooper,
            dispatched>>

shareVars == <<processedIntentUris, pendingSharedImagePaths, skippedSharedCount,
              cacheFiles, handling, delivered, passedUris, opened, mimeSkips,
              sharedResults>>

converterVars == <<job>>

androidVars == <<shareVars, converterVars>>

serviceVars == <<renderVars, lokVars, androidVars>>

vars == <<exportVars, shaperVars, keysVars, serviceVars>>

-----------------------------------------------------------------------------
(* Bounds *)

MaxTextLen == 4
MaxConversions == 2
MaxPages == 10
MaxPluginCalls == 2
MaxDocumentPages == 3
MaxIntents == 2
MaxSharedCalls == 2
MaxPending == 2
MaxPdfPages == 31
MaxRows == 2
MaxCols == 3
MaxImages == 2
MaxExports == 2
MaxKeyLen == 2
MaxKeyTextLen == 3

-----------------------------------------------------------------------------
(* Characters: a string is a sequence of one-character atoms; an ASCII    *)
(* character is itself, any other character is named by its code point.  *)

RLE == "u202B"
PDF == "u202C"
LRE == "u202A"
RLM == "u200F"

DirectionalMarks == {RLE, PDF, LRE, RLM}

\* the letters of the range \u0600-\u06FF that the program's anchors and the
\* model's inputs use
ArabicLetters ==
    {"u0623", "u0626", "u0627", "u0628", "u0629", "u062A", "u062B", "u062D",
     "u062E", "u062F", "u0631", "u0633", "u0634", "u0636", "u0637", "u0638",
     "u0639", "u0642", "u0643", "u0644", "u0645", "u0646", "u0647", "u0648",
     "u064A"}

LatinLetters ==
    {"a", "b", "c", "d", "e", "f", "g", "h", "i", "j", "k", "l", "m", "n", "o",
     "p", "q", "r", "s", "t", "u", "v", "w", "x", "y", "z",
     "A", "B", "C", "D", "E", "F", "G", "H", "I", "J", "K", "L", "M", "N", "O",
     "P", "Q", "R", "S", "T", "U", "V", "W", "X", "Y", "Z"}

DigitChars == <<"0", "1", "2", "3", "4", "5", "6", "7", "8", "9">>

Digits == {DigitChars[i] : i \in 1..Len(DigitChars)}

\* the character class ltrChars of the LTR token pattern
LtrChars ==
    LatinLetters \cup Digits \cup
    {"<", ">", "&", "*", "%", "$", "#", "@", "!", "+", "=", "\\", "?", "_",
     "-", "^", "~", "|", "[", "]", "{", "}", "(", ")", ";", ":", "\"", "'"}

\* the line-break markup joined between shaped lines: </w:t><w:br/><w:t>
LineBreak == "</w:t><w:br/><w:t>"

-----------------------------------------------------------------------------
(* Sequence helpers *)

DigitValue(c) == (CHOOSE i \in 1..Len(DigitChars) : DigitChars[i] = c) - 1

RECURSIVE ToDecimal(_)
\* String(n) for n >= 0
ToDecimal(n) ==
    IF n < 10 THEN <<DigitChars[n + 1]>>
    ELSE Append(ToDecimal(n \div 10), DigitChars[(n % 10) + 1])

RECURSIVE ParseDecimal(_)
\* parseInt of a string of digits
ParseDecimal(s) ==
    IF s = <<>> THEN 0
    ELSE ParseDecimal(SubSeq(s, 1, Len(s) - 1)) * 10 + DigitValue(s[Len(s)])

\* s has t at position i
HasAt(s, t, i) == i >= 1 /\ i + Len(t) - 1 <= Len(s) /\ SubSeq(s, i, i + Len(t) - 1) = t

\* String.prototype.includes
Includes(s, t) == \E i \in 1..(Len(s) + 1) : HasAt(s, t, i)

RECURSIVE DigitRunEnd(_, _)
\* last index of the run of digits that starts at i (i - 1 when there is none)
DigitRunEnd(s, i) ==
    IF i <= Len(s) /\ s[i] \in Digits THEN DigitRunEnd(s, i + 1) ELSE i - 1

RECURSIVE Flatten(_)
\* Array.prototype.join(''): the pieces one after the other
Flatten(ss) ==
    IF ss = <<>> THEN <<>>
    ELSE IF Len(ss) = 1 THEN ss[1]
    ELSE Flatten(SubSeq(ss, 1, Len(ss) \div 2))
         \o Flatten(SubSeq(ss, Len(ss) \div 2 + 1, Len(ss)))

RECURSIVE SplitOn(_, _)
\* String.prototype.split on a one-character separator
SplitOn(s, sep) ==
    IF \A i \in 1..Len(s) : s[i] # sep
    THEN <<s>>
    ELSE LET k == CHOOSE i \in 1..Len(s) :
                      s[i] = sep /\ \A j \in 1..(i - 1) : s[j] # sep
         IN  <<SubSeq(s, 1, k - 1)>> \o SplitOn(SubSeq(s, k + 1, Len(s)), sep)

RECURSIVE JoinWith(_, _)
\* Array.prototype.join
JoinWith(ss, sep) ==
    IF ss = <<>> THEN <<>>
    ELSE IF Len(ss) = 1 THEN ss[1]
    ELSE ss[1] \o <<sep>> \o JoinWith(Tail(ss), sep)

\* the texts of at most n characters of an alphabet
RECURSIVE TextsUpTo(_, _)
TextsUpTo(alphabet, n) ==
    IF n = 0 THEN {<<>>}
    ELSE LET shorter == TextsUpTo(alphabet, n - 1)
         IN  shorter \cup
             {Append(s, c) : s \in {t \in shorter : Len(t) = n - 1}, c \in alphabet}

-----------------------------------------------------------------------------
(* fixArabicText *)

needsFixAlways(text) == TRUE

\* /[a-zA-Z0-9\/]|\\/.test(text) || /\.{2,}/.test(text)
needsFix(text) ==
    \/ \E i \in 1..Len(text) :
          text[i] \in LatinLetters \cup Digits \cup {"/", "\\"}
    \/ \E i \in 1..(Len(text) - 1) : text[i] = "." /\ text[i + 1] = "."

\* position p holds a character of ltrChars
isLtr(text, p) == p \in 1..Len(text) /\ text[p] \in LtrChars

\* position p lies in a match of ([ltrChars]+(?:[\.][ltrChars]+)*): it holds a
\* character of ltrChars, or a period between two of them
insideToken(text, p) ==
    \/ isLtr(text, p)
    \/ p \in 1..Len(text) /\ text[p] = "." /\ isLtr(text, p - 1) /\ isLtr(text, p + 1)

\* the positions where the matches of ltrRegex start
tokenStarts(text) ==
    {i \in 1..Len(text) : isLtr(text, i) /\ ~insideToken(text, i - 1)}

\* last index of the match that starts at i
TokenEnd(text, i) ==
    CHOOSE j \in i..Len(text) :
        /\ \A p \in i..j : insideToken(text, p)
        /\ ~insideToken(text, j + 1)

\* `__PH_${n}__`
PlaceholderPrefix == <<"_", "_", "P", "H", "_">>

PlaceholderSuffix == <<"_", "_">>

PlaceholderText(n) == PlaceholderPrefix \o ToDecimal(n) \o PlaceholderSuffix

\* text.replace(ltrRegex, (match) => { placeholders.push(LRE + match + PDF);
\*                                     return `__PH_${placeholders.length - 1}__` })
protect(text) ==
    LET starts == tokenStarts(text)
        before(i) == Cardinality({q \in starts : q < i})
    IN  [protectedText |->
             Flatten([i \in 1..Len(text) |->
                         IF i \in starts THEN PlaceholderText(before(i))
                         ELSE IF insideToken(text, i) THEN <<>>
                         ELSE <<text[i]>>]),
         placeholders |->
             [n \in 1..Cardinality(starts) |->
                 LET i == CHOOSE q \in starts : before(q) = n - 1
                 IN  <<LRE>> \o SubSeq(text, i, TokenEnd(text, i)) \o <<PDF>>]]

\* protectedText.replace(/[\/\\]/g, (match) => RLM + match + RLM)
wrapSlashes(s) ==
    Flatten([i \in 1..Len(s) |->
                IF s[i] \in {"/", "\\"} THEN <<RLM, s[i], RLM>> ELSE <<s[i]>>])

\* position i opens, or closes, a run of periods
dotRunStart(s, i) == s[i] = "." /\ (i = 1 \/ s[i - 1] # ".")
dotRunEnd(s, i) == s[i] = "." /\ (i = Len(s) \/ s[i + 1] # ".")

wrapDotsSpaceLost(s) ==
    Flatten([i \in 1..Len(s) |->
                IF s[i] = " " /\ i > 1 /\ s[i - 1] = "." THEN <<>>
                ELSE (IF dotRunStart(s, i) THEN <<RLM>> ELSE <<>>)
                     \o <<s[i]>>
                     \o (IF dotRunEnd(s, i) THEN <<RLM>> ELSE <<>>)])

\* .replace(/(\.+)( ?)/g, (match, dots, space) => RLM + dots + RLM + (space || '')):
\* the space the match takes in is written back after the closing mark
wrapDots(s) ==
    Flatten([i \in 1..Len(s) |->
                (IF dotRunStart(s, i) THEN <<RLM>> ELSE <<>>)
                \o <<s[i]>>
                \o (IF dotRunEnd(s, i) THEN <<RLM>> ELSE <<>>)])

\* the end of a match of /__PH_(\d+)__/ that starts at i, or 0
PlaceholderEnd(s, i) ==
    IF HasAt(s, PlaceholderPrefix, i)
    THEN LET d == DigitRunEnd(s, i + Len(PlaceholderPrefix))
         IN  IF d >= i + Len(PlaceholderPrefix) /\ HasAt(s, PlaceholderSuffix, d + 1)
             THEN d + Len(PlaceholderSuffix)
             ELSE 0
    ELSE 0

\* placeholders[index] for the match that starts at i and ends at e
placeholderAt(s, placeholders, i, e) ==
    placeholders[ParseDecimal(SubSeq(s, i + Len(PlaceholderPrefix),
                                     e - Len(PlaceholderSuffix))) + 1]

RECURSIVE restoreFrom(_, _, _)
restoreFrom(s, placeholders, i) ==
    IF i > Len(s) THEN <<>>
    ELSE LET e == PlaceholderEnd(s, i)
         IN  IF e = 0
             THEN <<s[i]>> \o restoreFrom(s, placeholders, i + 1)
             ELSE placeholderAt(s, placeholders, i, e)
                  \o restoreFrom(s, placeholders, e + 1)

\* internalProcessed.replace(/__PH_(\d+)__/g, (match, index) => placeholders[index]):
\* when no two places where the pattern matches overlap, every one of them is
\* a match of the scan
restore(s, placeholders) ==
    LET found == {i \in 1..Len(s) : PlaceholderEnd(s, i) # 0}
    IN  IF \A i, j \in found : i < j => PlaceholderEnd(s, i) < j
        THEN Flatten([p \in 1..Len(s) |->
                         IF p \in found
                         THEN placeholderAt(s, placeholders, p, PlaceholderEnd(s, p))
                         ELSE IF \E i \in found : i < p /\ p <= PlaceholderEnd(s, i)
                         THEN <<>>
                         ELSE <<s[p]>>])
        ELSE restoreFrom(s, placeholders, 1)

\* if (processedText.endsWith('.')) processedText = processedText.slice(0, -1) + '.' + RLM
moveTrailingPeriod(s) ==
    IF s # <<>> /\ s[Len(s)] = "."
    THEN SubSeq(s, 1, Len(s) - 1) \o <<".", RLM>>
    ELSE s

\* the body of `if (needsFix) { ... }` once the tokens are protected
shapeProtected(p) ==
    <<RLE>>
    \o moveTrailingPeriod(restore(wrapDots(wrapSlashes(p.protectedText)),
                                  p.placeholders))
    \o <<PDF>>

\* one shaping pass: the test of needsFix and the body of `if (needsFix) { ... }`
shapeOnce(text) == IF needsFix(text) THEN shapeProtected(protect(text)) ELSE text

\* .replace(/&/g, '&amp;').replace(/</g, '&lt;').replace(/>/g, '&gt;')
\* .replace(/"/g, '&quot;').replace(/'/g, '&apos;')
escapeXml(s) ==
    Flatten([i \in 1..Len(s) |->
                CASE s[i] = "&" -> <<"&", "a", "m", "p", ";">>
                  [] s[i] = "<" -> <<"&", "l", "t", ";">>
                  [] s[i] = ">" -> <<"&", "g", "t", ";">>
                  [] s[i] = "\"" -> <<"&", "q", "u", "o", "t", ";">>
                  [] s[i] = "'" -> <<"&", "a", "p", "o", "s", ";">>
                  [] OTHER -> <<s[i]>>])

\* .replace(/\$/g, '$$$$'): the replacement pattern $$$$ writes two dollar signs
doubleDollars(s) ==
    Flatten([i \in 1..Len(s) |-> IF s[i] = "$" THEN <<"$", "$">> ELSE <<s[i]>>])

\* every line shaped again and escaped, the lines joined with the line-break
\* markup
shapeLines(lines) ==
    JoinWith([i \in 1..Len(lines) |-> doubleDollars(escapeXml(shapeOnce(lines[i])))],
             LineBreak)

\* the whole string is shaped once, then every line of the result
fixArabicText(text) ==
    IF text = <<>> THEN <<>> ELSE shapeLines(SplitOn(shapeOnce(text), "\n"))

-----------------------------------------------------------------------------
(* XML content: a sequence of markup tokens.  k is the tag ("/w:tr" is a   *)
(* closing tag, "ws" is white space between tags), t the characters of a   *)
(* text run or the child elements of a properties block, w a width or an   *)
(* id (for <w:p>, 1 when the tag carries attributes), s the identity of    *)
(* the formatting a properties block of the template holds.                *)

Tok(k) == [k |-> k, t |-> <<>>, w |-> 0, s |-> 0]

TextRun(text) == [k |-> "w:t", t |-> text, w |-> 0, s |-> 0]

Props(k, style, width) == [k |-> k, t |-> <<>>, w |-> width, s |-> style]

WhiteSpace == Tok("ws")

\* the first token of kind k at or after position i, or 0
KindIndexFrom(x, k, i) ==
    LET found == {j \in i..Len(x) : x[j].k = k}
    IN  IF found = {} THEN 0 ELSE CHOOSE j \in found : \A o \in found : j <= o

\* the first match of /<open(?:>|\s)[\s\S]*?<\/close>/
FirstBlock(x, open, close) ==
    LET i == KindIndexFrom(x, open, 1)
        j == IF i = 0 THEN 0 ELSE KindIndexFrom(x, close, i + 1)
    IN  IF j = 0 THEN <<>> ELSE SubSeq(x, i, j)

RECURSIVE AllBlocksFrom(_, _, _, _)
\* every match of /<open(?:>|\s)[\s\S]*?<\/close>/g, left to right
AllBlocksFrom(x, open, close, from) ==
    LET i == KindIndexFrom(x, open, from)
        j == IF i = 0 THEN 0 ELSE KindIndexFrom(x, close, i + 1)
    IN  IF j = 0 THEN <<>>
        ELSE <<SubSeq(x, i, j)>> \o AllBlocksFrom(x, open, close, j + 1)

AllBlocks(x, open, close) == AllBlocksFrom(x, open, close, 1)

\* String.prototype.includes on markup, for a needle made of text characters
MarkupIncludes(x, needle) ==
    \E i \in 1..Len(x) : x[i].k = "w:t" /\ Includes(x[i].t, needle)

-----------------------------------------------------------------------------
(* generateXMLTable *)

\* 'ملاحظة'
NotesLabel == <<"u0645", "u0644", "u0627", "u062D", "u0638", "u0629">>

HUGE_WIDTH == 5000
CHAR_WIDTH == 180
MIN_WIDTH == 400
PADDING == 300
TABLE_PCT_WIDTH == 5000

Max(a, b) == IF a >= b THEN a ELSE b

RECURSIVE MaxOver(_)
MaxOver(ns) == IF ns = <<>> THEN 0 ELSE Max(Head(ns), MaxOver(Tail(ns)))

\* data[0].forEach((cellText, index) => { if (cellText && cellText.includes('ملاحظة'))
\*                                         noteColIndex = index })
\* as a 1-based index, 0 when no header cell holds the label
noteColIndex(data) ==
    IF \E c \in 1..Len(data[1]) : Includes(data[1][c], NotesLabel)
    THEN CHOOSE c \in 1..Len(data[1]) :
             /\ Includes(data[1][c], NotesLabel)
             /\ \A d \in (c + 1)..Len(data[1]) : ~Includes(data[1][d], NotesLabel)
    ELSE 0

\* let columnWidths = data[0].map((_, colIndex) => ...)
columnWidths(data) ==
    [c \in 1..Len(data[1]) |->
        IF c = noteColIndex(data) THEN HUGE_WIDTH
        ELSE Max(MaxOver([r \in 1..Len(data) |-> Len(data[r][c])]) * CHAR_WIDTH
                     + PADDING,
                 MIN_WIDTH)]

\* cell.replace(/<w:tcW(?:>|\s)[^>]*?\/>/g, widthTag): a tcPr with w = 0 holds no tcW
replaceTcW(cell, preferredWidth) ==
    [i \in 1..Len(cell) |->
        IF cell[i].k = "w:tcPr" /\ cell[i].w # 0
        THEN [cell[i] EXCEPT !.w = preferredWidth]
        ELSE cell[i]]

FirstOfKind(x, k, default) ==
    LET i == KindIndexFrom(x, k, 1) IN IF i = 0 THEN default ELSE <<x[i]>>

\* if (!tcPr.includes('w:noWrap')) tcPr = tcPr.replace('</w:tcPr>', '<w:noWrap/></w:tcPr>')
addNoWrap(tcPr) ==
    IF \E i \in 1..Len(tcPr.t) : tcPr.t[i] = "w:noWrap"
    THEN tcPr
    ELSE [tcPr EXCEPT !.t = Append(@, "w:noWrap")]

\* const createCell = (template, text, isNoteCol, colIndex) => ...
createCell(template, text, isNoteCol, preferredWidth, forAndroid) ==
    LET cell == replaceTcW(template, preferredWidth)
        safeText == escapeXml(text)
        pPr == FirstOfKind(cell, "w:pPr", <<[Tok("w:pPr") EXCEPT !.t = <<"w:jc">>]>>)
        rPr == FirstOfKind(cell, "w:rPr", <<>>)
        tcPr0 == FirstOfKind(cell, "w:tcPr",
                             <<[k |-> "w:tcPr", t |-> <<"w:vAlign">>,
                                w |-> preferredWidth, s |-> 0]>>)[1]
        tcPr == IF ~forAndroid /\ ~isNoteCol THEN addNoWrap(tcPr0) ELSE tcPr0
    IN  <<Tok("w:tc"), tcPr, WhiteSpace, Tok("w:p"), WhiteSpace>> \o pPr
        \o <<WhiteSpace, Tok("w:r"), WhiteSpace>> \o rPr
        \o <<WhiteSpace, TextRun(safeText), WhiteSpace, Tok("/w:r"), WhiteSpace,
             Tok("/w:p"), WhiteSpace, Tok("/w:tc")>>

\* the tblW and tblLayout edits of tblPr; '' (no tblPr in the template) stays ''
layoutTblPr(tblPr, forAndroid) ==
    IF tblPr = <<>> THEN <<>>
    ELSE <<[tblPr[1] EXCEPT
              !.w = TABLE_PCT_WIDTH,
              !.t = IF forAndroid THEN <<"fixed">> ELSE <<"autofit">>]>>

generateXMLTableNoHeader(data, templateXml, forAndroid) ==
    IF data = <<>> THEN <<>> ELSE
    LET rows == AllBlocks(templateXml, "w:tr", "/w:tr")
        headerCellTemplate == FirstBlock(rows[1], "w:tc", "/w:tc")
        widths == columnWidths(data)
        rowXML(r) ==
            <<Tok("w:tr")>>
            \o FirstOfKind(rows[1], "w:trPr", <<>>)
            \o Flatten([c \in 1..Len(data[r]) |->
                   createCell(headerCellTemplate, data[r][c],
                              c = noteColIndex(data), widths[c], forAndroid)])
            \o <<Tok("/w:tr")>>
    IN  <<WhiteSpace, Tok("w:tbl"), WhiteSpace>>
        \o layoutTblPr(FirstOfKind(templateXml, "w:tblPr", <<>>), forAndroid)
        \o <<WhiteSpace, Tok("w:tblGrid"), WhiteSpace>>
        \o [c \in 1..Len(data[1]) |-> Props("w:gridCol", 0, widths[c])]
        \o <<WhiteSpace, Tok("/w:tblGrid"), WhiteSpace>>
        \o Flatten([r \in 1..(Len(data) - 1) |-> rowXML(r + 1)])
        \o <<WhiteSpace, Tok("/w:tbl"), WhiteSpace>>

\* const generateXMLTable = (data, templateXml, forAndroid = false) => ...
generateXMLTable(data, templateXml, forAndroid) ==
    IF data = <<>> THEN <<>> ELSE
    LET tblPr == FirstOfKind(templateXml, "w:tblPr", <<>>)
        rows == AllBlocks(templateXml, "w:tr", "/w:tr")
        headerRowTemplate == IF rows # <<>> THEN rows[1] ELSE <<>>
        headerCellTemplate == FirstBlock(headerRowTemplate, "w:tc", "/w:tc")
        dataRowTemplate ==
            IF rows = <<>> THEN <<>>
            ELSE IF Len(rows) > 1 THEN rows[2] ELSE rows[1]
        dataCellTemplate == FirstBlock(dataRowTemplate, "w:tc", "/w:tc")
        widths == columnWidths(data)
        rowXML(r) ==
            LET isHeader == r = 1
                cellTemplate ==
                    IF isHeader THEN headerCellTemplate ELSE dataCellTemplate
                rowTemplate ==
                    IF isHeader THEN headerRowTemplate ELSE dataRowTemplate
                finalCellTemplate ==
                    IF cellTemplate # <<>> THEN cellTemplate ELSE headerCellTemplate
                trPr == FirstOfKind(rowTemplate, "w:trPr",
                                    <<[Tok("w:trPr") EXCEPT !.t = <<"w:jc">>]>>)
            IN  <<Tok("w:tr")>> \o trPr
                \o Flatten([c \in 1..Len(data[r]) |->
                       createCell(finalCellTemplate, data[r][c],
                                  c = noteColIndex(data), widths[c], forAndroid)])
                \o <<Tok("/w:tr")>>
    IN  IF headerCellTemplate = <<>> THEN <<>>
        ELSE <<WhiteSpace, Tok("w:tbl"), WhiteSpace>>
             \o layoutTblPr(tblPr, forAndroid)
             \o <<WhiteSpace, Tok("w:tblGrid"), WhiteSpace>>
             \o [c \in 1..Len(data[1]) |-> Props("w:gridCol", 0, widths[c])]
             \o <<WhiteSpace, Tok("/w:tblGrid"), WhiteSpace>>
             \o Flatten([r \in 1..Len(data) |-> rowXML(r)])
             \o <<WhiteSpace, Tok("/w:tbl"), WhiteSpace>>

-----------------------------------------------------------------------------
(* Placeholder replacement in one XML part *)

RECURSIVE expandFrom(_, _, _, _)
\* what String.prototype.replace writes for a replacement string: $$ is a
\* dollar sign, $& the matched text, $n the n-th group when the pattern has
\* one, anything else is literal ($` and $' need characters no input holds)
expandFrom(repl, matched, groups, i) ==
    IF i > Len(repl) THEN <<>>
    ELSE IF repl[i] = "$" /\ i < Len(repl) /\ repl[i + 1] = "$"
    THEN <<"$">> \o expandFrom(repl, matched, groups, i + 2)
    ELSE IF repl[i] = "$" /\ i < Len(repl) /\ repl[i + 1] = "&"
    THEN matched \o expandFrom(repl, matched, groups, i + 2)
    ELSE IF /\ repl[i] = "$" /\ i < Len(repl) /\ repl[i + 1] \in Digits
            /\ DigitValue(repl[i + 1]) \in 1..Len(groups)
    THEN groups[DigitValue(repl[i + 1])] \o expandFrom(repl, matched, groups, i + 2)
    ELSE <<repl[i]>> \o expandFrom(repl, matched, groups, i + 1)

expandReplacement(repl, matched, groups) ==
    IF \A i \in 1..Len(repl) : repl[i] # "$" THEN repl
    ELSE expandFrom(repl, matched, groups, 1)

\* the tags captured by (<w:t[^>]*>) and (<\/w:t>), as they read inside text
OpenT == "<w:t>"
CloseT == "</w:t>"
RunGroups == << <<OpenT>>, <<CloseT>> >>

RECURSIVE splitRunText(_)
\* a run whose text now holds the line-break markup is several runs
splitRunText(text) ==
    IF \A i \in 1..Len(text) : text[i] # LineBreak
    THEN <<TextRun(text)>>
    ELSE LET k == CHOOSE i \in 1..Len(text) :
                      text[i] = LineBreak /\ \A j \in 1..(i - 1) : text[j] # LineBreak
         IN  <<TextRun(SubSeq(text, 1, k - 1)), Tok("w:br")>>
             \o splitRunText(SubSeq(text, k + 1, Len(text)))

\* a text run with its text rewritten; any other token as it is
rewriteRun(tok, text) == IF tok.k = "w:t" THEN splitRunText(text) ELSE <<tok>>

LeftBracket == "u00AB"
RightBracket == "u00BB"

\* the keys of the object `replacements`, in insertion order, each with the
\* form field it reads; blank marks the entries written `fixArabicText(..) || ' '`
ReplacementKeys ==
    <<
      [key |-> <<"f", "r", "o", "m">>,
       field |-> "from", blank |-> FALSE],
      [key |-> <<"p", "a", "r", "e", "n", "t", "_", "c", "o", "m", "p", "a", "n", "y">>,
       field |-> "parent_company", blank |-> FALSE],
      [key |-> <<"s", "u", "b", "s", "i", "d", "i", "a", "r", "y", "_", "c", "o", "m", "p", "a", "n", "y">>,
       field |-> "subsidiary_company", blank |-> FALSE],
      [key |-> <<"t", "o">>,
       field |-> "to", blank |-> FALSE],
      [key |-> <<"t", "o", "_", "t", "h", "e">>,
       field |-> "to_the", blank |-> FALSE],
      [key |-> <<"g", "r", "e", "e", "t", "i", "n", "g", "s">>,
       field |-> "greetings", blank |-> FALSE],
      [key |-> <<"s", "u", "b", "j", "e", "c", "t", "_", "n", "a", "m", "e">>,
       field |-> "subject_name", blank |-> FALSE],
      [key |-> <<"s", "u", "b", "j", "e", "c", "t">>,
       field |-> "subject", blank |-> FALSE],
      [key |-> <<"e", "n", "d", "i", "n", "g">>,
       field |-> "ending", blank |-> FALSE],
      [key |-> <<"s", "i", "g", "n">>,
       field |-> "sign", blank |-> FALSE],
      [key |-> <<"c", "o", "p", "y", "_", "t", "o">>,
       field |-> "copy_to", blank |-> FALSE],
      [key |-> <<"u0644", "u0644", "u0627", "u0644", "u0623", "u0648", "u0644", "u0644", "u0644">>,
       field |-> "parent_company", blank |-> TRUE],
      [key |-> <<"u0644", "u0644", "u0627", "u0644", "u062B", "u0627", "u0646", "u064A", "u0644", "u0644">>,
       field |-> "subsidiary_company", blank |-> TRUE],
      [key |-> <<"u0644", "u0644", "u0627", "u0644", "u062B", "u0627", "u0644", "u062B", "u0644", "u0644">>,
       field |-> "from", blank |-> TRUE],
      [key |-> <<"u0644", "u0644", "u0627", "u0644", "u0627", "u062E", "u0644", "u0644">>,
       field |-> "to", blank |-> FALSE],
      [key |-> <<"u0644", "u0644", "u0627", "u0644", "u0645", "u062D", "u062A", "u0631", "u0645", "u0644", "u0644">>,
       field |-> "to_the", blank |-> FALSE],
      [key |-> <<"u0644", "u0644", "u0627", "u0644", "u0633", "u0644", "u0627", "u0645", " ", "u0639", "u0644", "u064A", "u0643", "u0645", " ", "u0648", "u0631", "u062D", "u0645", "u0629", " ", "u0627", "u0644", "u0644", "u0647", " ", "u0648", "u0628", "u0631", "u0643", "u0627", "u062A", "u0647", "u0644", "u0644">>,
       field |-> "greetings", blank |-> FALSE],
      [key |-> <<"u0644", "u0644", "u0627", "u0644", "u0645", "u0648", "u0636", "u0648", "u0639", "u0644", "u0644">>,
       field |-> "subject_name", blank |-> FALSE],
      [key |-> <<"u0644", "u0644", "u062A", "u062D", "u064A", "u0629", " ", "u0637", "u064A", "u0628", "u0629", " ", "u0648", "u0628", "u0639", "u062F", "u0644", "u0644">>,
       field |-> "subject", blank |-> FALSE],
      [key |-> <<"u0644", "u0644", "u0648", "u0634", "u0643", "u0631", "u0627", "u0644", "u0644">>,
       field |-> "ending", blank |-> FALSE],
      [key |-> <<"u0644", "u0644", "u0627", "u0644", "u062A", "u0648", "u0642", "u064A", "u0639", "u0644", "u0644">>,
       field |-> "sign", blank |-> FALSE]>>

\* shaped || ' ' for the entries written so
orBlank(shaped, blank) == IF blank /\ shaped = <<>> THEN <<" ">> ELSE shaped

\* replacements[key], for the k-th key
replacementValue(form, k) ==
    orBlank(fixArabicText(form[ReplacementKeys[k].field]), ReplacementKeys[k].blank)

\* the first key, from the k-th on, whose pattern
\* new RegExp(`(<w:t[^>]*>)«${key}»(</w:t>)`, 'g') matches a run of this
\* text, or 0
nextBracketKey(text, k) ==
    LET hits == {n \in k..Len(ReplacementKeys) :
                    text = <<LeftBracket>> \o ReplacementKeys[n].key \o <<RightBracket>>}
    IN  IF hits = {} THEN 0 ELSE CHOOSE n \in hits : \A o \in hits : n <= o

RECURSIVE replaceBracketKeysInRun(_, _, _)

\* the runs the n-th key wrote, handed to the keys after it
laterBracketKeys(written, form, n) ==
    Flatten([r \in 1..Len(written) |->
                IF written[r].k = "w:t"
                THEN replaceBracketKeysInRun(written[r].t, form, n + 1)
                ELSE <<written[r]>>])

\* the run with the n-th key replaced, when n is a key
bracketKeyWritten(text, form, n) ==
    IF n = 0 THEN <<TextRun(text)>>
    ELSE laterBracketKeys(
             splitRunText(expandReplacement(replacementValue(form, n),
                                            <<OpenT>> \o text \o <<CloseT>>,
                                            RunGroups)),
             form, n)

\* Object.keys(replacements).forEach(key => {
\*     content = content.replace(pattern1, `$1${replacements[key]}$2`) })
\* for one run, from the k-th key on: the keys before the first that matches
\* leave the run as it is, the keys after it work on the runs it wrote
replaceBracketKeysInRun(text, form, k) ==
    bracketKeyWritten(text, form, nextBracketKey(text, k))

\* every pattern matches inside one run, so the passes are taken run by run
replaceBracketKeys(content, form) ==
    Flatten([i \in 1..Len(content) |->
                IF content[i].k = "w:t"
                THEN replaceBracketKeysInRun(content[i].t, form, 1)
                ELSE <<content[i]>>])

\* Object.keys(replacements).filter(k => /[\u0600-\u06FF]/.test(k)), as indexes
directTextKeys ==
    SelectSeq([k \in 1..Len(ReplacementKeys) |-> k],
              LAMBDA k : \E i \in 1..Len(ReplacementKeys[k].key) :
                             ReplacementKeys[k].key[i] \in ArabicLetters)

RECURSIVE insertByLength(_, _, _)
\* k inserted into a list sorted by (a, b) => b.length - a.length, after the
\* keys that are as long (the sort is stable)
insertByLength(keys, sorted, k) ==
    IF sorted = <<>> THEN <<k>>
    ELSE IF Len(keys[Head(sorted)]) >= Len(keys[k])
    THEN <<Head(sorted)>> \o insertByLength(keys, Tail(sorted), k)
    ELSE <<k>> \o sorted

sortUnchanged(keys, order) == order

RECURSIVE sortLongestFirst(_, _)
\* directTextKeys.sort((a, b) => b.length - a.length)
sortLongestFirst(keys, order) ==
    IF order = <<>> THEN <<>>
    ELSE insertByLength(keys,
                        sortLongestFirst(keys, SubSeq(order, 1, Len(order) - 1)),
                        order[Len(order)])

\* the alternative of patternAll that matches at position i: the first, in the
\* order of the alternation, whose key stands there; 0 when none does
matchedKeyAt(text, i, keys, order) ==
    IF \E n \in 1..Len(order) : HasAt(text, keys[order[n]], i)
    THEN order[CHOOSE n \in 1..Len(order) :
                   /\ HasAt(text, keys[order[n]], i)
                   /\ \A m \in 1..(n - 1) : ~HasAt(text, keys[order[m]], i)]
    ELSE 0

RECURSIVE replaceAllKeysFrom(_, _, _, _, _)
\* textContent.replace(patternAll, (matchedKey) => replacements[matchedKey]):
\* a function's result is written as it is, with no $ expansion
replaceAllKeysFrom(text, i, keys, order, values) ==
    IF i > Len(text) THEN <<>>
    ELSE LET k == matchedKeyAt(text, i, keys, order)
         IN  IF k = 0 \/ keys[k] = <<>>
             THEN <<text[i]>> \o replaceAllKeysFrom(text, i + 1, keys, order, values)
             ELSE values[k]
                  \o replaceAllKeysFrom(text, i + Len(keys[k]), keys, order, values)

replaceAllKeys(text, keys, order, values) ==
    IF \A i \in 1..Len(text) : matchedKeyAt(text, i, keys, order) = 0 THEN text
    ELSE replaceAllKeysFrom(text, 1, keys, order, values)

\* Object.keys(replacements)
replacementKeyTexts == [k \in 1..Len(ReplacementKeys) |-> ReplacementKeys[k].key]

\* directTextKeys after directTextKeys.sort((a, b) => b.length - a.length)
sortedTextKeys == sortLongestFirst(replacementKeyTexts, directTextKeys)

\* content.replace(/(<w:t[^>]*>)(.*?)(<\/w:t>)/g, ...): `.` stops at a line
\* break, so a run whose text holds one is left alone; the keys hold letters
\* and spaces only, so nothing between the tags of a match can hold one
replaceDirectTextWith(content, values) ==
    Flatten([r \in 1..Len(content) |->
                rewriteRun(content[r],
                           IF \E i \in 1..Len(content[r].t) : content[r].t[i] = "\n"
                           THEN content[r].t
                           ELSE replaceAllKeys(content[r].t, replacementKeyTexts,
                                               sortedTextKeys, values))])

replaceDirectText(content, form) ==
    replaceDirectTextWith(
        content, [k \in 1..Len(ReplacementKeys) |-> replacementValue(form, k)])

\* the four replacements of a run that holds only «, », [[ or ]]
cleanBrackets(content) ==
    [i \in 1..Len(content) |->
        IF /\ content[i].k = "w:t"
           /\ content[i].t \in {<<LeftBracket>>, <<RightBracket>>,
                                <<"[", "[">>, <<"]", "]">>}
        THEN TextRun(<<>>)
        ELSE content[i]]

-----------------------------------------------------------------------------
(* The notes table and the distribution list of one XML part *)

RECURSIVE replaceTablesFrom(_, _, _, _, _)
\* content.replace(/<w:tbl(?:>|\s)[\s\S]*?<\/w:tbl>/g, (match) => ...)
replaceTablesFrom(content, from, useTable, tableData, forAndroid) ==
    LET i == KindIndexFrom(content, "w:tbl", from)
        j == IF i = 0 THEN 0 ELSE KindIndexFrom(content, "/w:tbl", i + 1)
    IN  IF j = 0 THEN SubSeq(content, from, Len(content))
        ELSE LET match == SubSeq(content, i, j)
                 replaced ==
                     IF ~MarkupIncludes(match, NotesLabel) THEN match
                     ELSE IF useTable
                     THEN generateXMLTable(tableData, match, forAndroid)
                     ELSE <<>>
             IN  SubSeq(content, from, i - 1) \o replaced
                 \o replaceTablesFrom(content, j + 1, useTable, tableData, forAndroid)

replaceTablesEvery(content, useTable, tableData, forAndroid) ==
    SelectSeq(replaceTablesFrom(content, 1, useTable, tableData, forAndroid),
              LAMBDA tok : ~useTable \/ tok.k \notin {"w:tbl", "/w:tbl"})

replaceTablesKept(content, useTable, tableData, forAndroid) ==
    IF useTable THEN replaceTablesFrom(content, 1, useTable, tableData, forAndroid)
    ELSE content

replaceTables(content, useTable, tableData, forAndroid) ==
    replaceTablesFrom(content, 1, useTable, tableData, forAndroid)

\* 'للدائرلل'
CopyToSentinel ==
    <<"u0644", "u0644", "u062F", "u0627", "u0626", "u0631", "u0644", "u0644">>

WhiteSpaceChars == {" ", "\n", "\t"}

RECURSIVE trimStart(_)
trimStart(s) ==
    IF s # <<>> /\ Head(s) \in WhiteSpaceChars THEN trimStart(Tail(s)) ELSE s

RECURSIVE trimEnd(_)
trimEnd(s) ==
    IF s # <<>> /\ s[Len(s)] \in WhiteSpaceChars
    THEN trimEnd(SubSeq(s, 1, Len(s) - 1))
    ELSE s

\* String.prototype.trim
trim(s) == trimEnd(trimStart(s))

\* formData.copy_to.split('\n').filter(line => line.trim())
copyToLines(copy_to) ==
    SelectSeq(SplitOn(copy_to, "\n"), LAMBDA line : trim(line) # <<>>)

\* the sentinel run closing its run and its paragraph:
\* <w:t[^>]*>للدائرلل<\/w:t><\/w:r><\/w:p>
sentinelEndsAt(content, m) ==
    /\ m + 2 <= Len(content)
    /\ content[m].k = "w:t" /\ content[m].t = CopyToSentinel
    /\ content[m + 1].k = "/w:r"
    /\ content[m + 2].k = "/w:p"

\* <w:p\s: a paragraph tag that carries attributes
isAttributedP(tok) == tok.k = "w:p" /\ tok.w = 1

\* <w:numPr> stands among the children of a paragraph-properties block
hasNumPr(tok) == \E c \in 1..Len(tok.t) : tok.k = "w:pPr" /\ tok.t[c] = "w:numPr"

\* the index of the sentinel run where the match of paragraphPattern that
\* starts at i ends, or 0: neither lazy part may step over another <w:p\s
paragraphMatchEnd(content, i) ==
    LET ends == {m \in (i + 1)..Len(content) :
                    /\ sentinelEndsAt(content, m)
                    /\ \E n \in (i + 1)..(m - 1) : hasNumPr(content[n])
                    /\ \A q \in (i + 1)..(m - 1) : ~isAttributedP(content[q])}
    IN  IF isAttributedP(content[i]) /\ ends # {}
        THEN CHOOSE m \in ends : \A o \in ends : m <= o
        ELSE 0

\* content.match(paragraphPattern): where the leftmost match starts and ends;
\* index 0 when there is none
paragraphMatch(content) ==
    LET starts == {i \in 1..Len(content) : paragraphMatchEnd(content, i) # 0}
    IN  IF starts = {} THEN [index |-> 0, end |-> 0]
        ELSE LET i == CHOOSE i \in starts : \A o \in starts : i <= o
             IN  [index |-> i, end |-> paragraphMatchEnd(content, i) + 2]

\* the paragraph's markup where a replacement string names it with $&
MatchedParagraph == "<w:p ...>...</w:p>"

\* originalParagraph.replace(/>للدائرلل</, '>' + escapedLine + '<'): the first
\* run of the paragraph that holds the sentinel alone
listItem(originalParagraph, line) ==
    LET escapedLine == escapeXml(trim(line))
        holders == {r \in 1..Len(originalParagraph) :
                       /\ originalParagraph[r].k = "w:t"
                       /\ originalParagraph[r].t = CopyToSentinel}
        first == CHOOSE r \in holders : \A o \in holders : r <= o
        written == expandReplacement(<<">">> \o escapedLine \o <<"<">>,
                                     <<">">> \o CopyToSentinel \o <<"<">>, <<>>)
    IN  SubSeq(originalParagraph, 1, first - 1)
        \o <<TextRun(SubSeq(written, 2, Len(written) - 1))>>
        \o SubSeq(originalParagraph, first + 1, Len(originalParagraph))

\* (<w:t[^>]*>)للدائرلل(<\/w:t>) replaced, in every run, by `$1${text}$2`
replaceSentinelRuns(content, text) ==
    LET written == expandReplacement(text, <<OpenT>> \o CopyToSentinel \o <<CloseT>>,
                                     RunGroups)
    IN  Flatten([i \in 1..Len(content) |->
                    rewriteRun(content[i],
                               IF content[i].t = CopyToSentinel THEN written
                               ELSE content[i].t)])

\* content.replace(paragraphPattern, listItems): the joined paragraphs are a
\* replacement string
expandListItems(listItems) ==
    Flatten([i \in 1..Len(listItems) |->
                rewriteRun(listItems[i],
                           expandReplacement(listItems[i].t, <<MatchedParagraph>>,
                                             <<>>))])

\* the distribution list: one copy of the sentinel's paragraph for each line
\* of copy_to, or the first line written into the sentinel's run, or, with
\* no line, the paragraph and the sentinel removed
replaceCopyToAt(content, lines, match) ==
    IF lines # <<>>
    THEN IF match.index # 0
         THEN SubSeq(content, 1, match.index - 1)
              \o expandListItems(
                     Flatten([l \in 1..Len(lines) |->
                                 listItem(SubSeq(content, match.index, match.end),
                                          lines[l])]))
              \o SubSeq(content, match.end + 1, Len(content))
         ELSE replaceSentinelRuns(content, escapeXml(trim(lines[1])))
    ELSE replaceSentinelRuns(
             IF match.index # 0
             THEN SubSeq(content, 1, match.index - 1)
                  \o SubSeq(content, match.end + 1, Len(content))
             ELSE content,
             <<>>)

replaceCopyTo(content, copy_to) ==
    replaceCopyToAt(content, copyToLines(copy_to), paragraphMatch(content))

-----------------------------------------------------------------------------
(* One XML part through the body of xmlFiles.forEach *)

\* 'word/document.xml'
DocumentXml == "word/document.xml"

\* the notes table (document only), the distribution list, the bracket keys,
\* the literal keys, the leftover brackets
processXmlFile(xmlFile, content, form, onAndroid) ==
    cleanBrackets(
        replaceDirectText(
            replaceBracketKeys(
                replaceCopyTo(
                    IF xmlFile = DocumentXml
                    THEN replaceTables(content, form.useTable, form.tableData,
                                       onAndroid)
                    ELSE content,
                    form.copy_to),
                form),
            form))

-----------------------------------------------------------------------------
(* The package: zip.files.  xml maps the name of each XML part the archive  *)
(* holds to its content, rels is the content of                              *)
(* word/_rels/document.xml.rels (hasRels: the part is there), media maps the *)
(* name of each media part to its bytes.                                     *)

Header1Xml == "word/header1.xml"
Header2Xml == "word/header2.xml"
Header3Xml == "word/header3.xml"
SettingsXml == "word/settings.xml"

\* a part no stage of the export names
Footer1Xml == "word/footer1.xml"

\* every XML part of the template's letterhead taken for a part to rewrite
xmlFilesEvery == <<DocumentXml, Header1Xml, Header2Xml, Header3Xml, Footer1Xml>>

\* const xmlFiles = ['word/document.xml', 'word/header1.xml', ...]
xmlFiles == <<DocumentXml, Header1Xml, Header2Xml, Header3Xml>>

\* zip.file(name)?.asText() is truthy: the part is there, its entry can be
\* read and it is not empty. A read that throws is caught by the try block
\* around each use, which skips what the test guards.
hasText(zip, name) ==
    /\ name \in DOMAIN zip.xml
    /\ name \notin zip.broken
    /\ zip.xml[name] # <<>>

\* zip.file(name, content) for an XML part
writeXml(zip, name, content) ==
    [zip EXCEPT !.xml = [part \in (DOMAIN zip.xml) \cup {name} |->
                            IF part = name THEN content ELSE zip.xml[part]]]

\* zip.file(name, bytes) for a media part
writeMedia(zip, name, bytes) ==
    [zip EXCEPT !.media = [part \in (DOMAIN zip.media) \cup {name} |->
                              IF part = name THEN bytes ELSE zip.media[part]]]

RECURSIVE processXmlFilesFrom(_, _, _, _)
\* xmlFiles.forEach(xmlFile => { ... if (content) { ...; zip.file(xmlFile, content) } })
processXmlFilesFrom(zip, n, form, onAndroid) ==
    IF n > Len(xmlFiles) THEN zip
    ELSE processXmlFilesFrom(
             IF hasText(zip, xmlFiles[n])
             THEN writeXml(zip, xmlFiles[n],
                           processXmlFile(xmlFiles[n], zip.xml[xmlFiles[n]],
                                          form, onAndroid))
             ELSE zip,
             n + 1, form, onAndroid)

processXmlFiles(zip, form, onAndroid) ==
    processXmlFilesFrom(zip, 1, form, onAndroid)

\* 'word/media/image1.png', 'word/media/image2.png'
Image1Png ==
    <<"w", "o", "r", "d", "/", "m", "e", "d", "i", "a", "/",
      "i", "m", "a", "g", "e", "1", ".", "p", "n", "g">>

Image2Png ==
    <<"w", "o", "r", "d", "/", "m", "e", "d", "i", "a", "/",
      "i", "m", "a", "g", "e", "2", ".", "p", "n", "g">>

\* if (formData.logoBase64) [...].forEach(imgName => { if (zip.file(imgName))
\*                                                      zip.file(imgName, imgArray) })
replaceLogo(zip, logoBase64) ==
    IF logoBase64 = "" THEN zip
    ELSE [zip EXCEPT !.media = [n \in DOMAIN zip.media |->
                                   IF n \in {Image1Png, Image2Png}
                                   THEN logoBase64 ELSE zip.media[n]]]

RECURSIVE removeBlocksFrom(_, _, _, _)
\* x.replace(/<open>[\s\S]*?<\/close>/g, '')
removeBlocksFrom(x, open, close, from) ==
    LET i == KindIndexFrom(x, open, from)
        j == IF i = 0 THEN 0 ELSE KindIndexFrom(x, close, i + 1)
    IN  IF j = 0 THEN SubSeq(x, from, Len(x))
        ELSE SubSeq(x, from, i - 1) \o removeBlocksFrom(x, open, close, j + 1)

\* the mail-merge block of the settings and the recipient data part
removeMailMerge(zip) ==
    IF SettingsXml \in zip.broken THEN zip
    ELSE [(IF hasText(zip, SettingsXml)
           THEN writeXml(zip, SettingsXml,
                         removeBlocksFrom(zip.xml[SettingsXml],
                                          "w:mailMerge", "/w:mailMerge", 1))
           ELSE zip)
          EXCEPT !.recipientData = FALSE]

\* name="مستطيل 7"
DateBoxName == <<"u0645", "u0633", "u062A", "u0637", "u064A", "u0644", " ", "7">>

\* wp14:anchorId="6FBCC3A1"
DateBoxAnchorId == "6FBCC3A1"

\* the end of the match that starts at the <mc:AlternateContent> at i, or 0:
\* the first mark after i with no other <mc:AlternateContent> between, then
\* the first </mc:AlternateContent> after it
shapeMatchEnd(x, i, marks) ==
    LET reach == {m \in marks :
                     /\ m > i
                     /\ \A q \in (i + 1)..(m - 1) : x[q].k # "mc:AlternateContent"}
    IN  IF x[i].k # "mc:AlternateContent" \/ reach = {} THEN 0
        ELSE KindIndexFrom(x, "/mc:AlternateContent",
                           (CHOOSE m \in reach : \A o \in reach : m <= o) + 1)

RECURSIVE removeShapesFrom(_, _, _)
removeShapesFrom(x, from, marks) ==
    LET starts == {i \in from..Len(x) : shapeMatchEnd(x, i, marks) # 0}
    IN  IF starts = {} THEN SubSeq(x, from, Len(x))
        ELSE LET i == CHOOSE i \in starts : \A o \in starts : i <= o
             IN  SubSeq(x, from, i - 1)
                 \o removeShapesFrom(x, shapeMatchEnd(x, i, marks) + 1,
                                     {m \in marks : m > shapeMatchEnd(x, i, marks)})

\* header3.replace(dateBoxPattern, '') and then .replace(dateBoxPattern2, '')
removeDateBoxes(header3) ==
    LET byName == removeShapesFrom(header3, 1,
                      {i \in 1..Len(header3) :
                          header3[i].k = "wp:docPr" /\ header3[i].t = DateBoxName})
    IN  removeShapesFrom(byName, 1,
            {i \in 1..Len(byName) :
                byName[i].k = "wp:anchor" /\ byName[i].t = <<DateBoxAnchorId>>})

\* if (!formData.showDate) { ... }
removeDateBox(zip, showDate) ==
    IF ~showDate /\ hasText(zip, Header3Xml)
    THEN writeXml(zip, Header3Xml, removeDateBoxes(zip.xml[Header3Xml]))
    ELSE zip

A4_WIDTH == 11906
A4_HEIGHT == 16838

\* '<w:pgSz w:w="11906" w:h="16838"/>'
a4PgSz == [k |-> "w:pgSz", t |-> <<>>, w |-> A4_WIDTH, s |-> A4_HEIGHT]

\* every page size set to A4, or one written into every section-properties
\* block when the document declares none
enforceA4(docContent) ==
    IF \E i \in 1..Len(docContent) : docContent[i].k = "w:pgSz"
    THEN [i \in 1..Len(docContent) |->
             IF docContent[i].k = "w:pgSz" THEN a4PgSz ELSE docContent[i]]
    ELSE Flatten([i \in 1..Len(docContent) |->
                     IF docContent[i].k = "w:sectPr"
                     THEN <<docContent[i], a4PgSz>>
                     ELSE <<docContent[i]>>])

\* if (onAndroid) { ... }
enforcePageSize(zip, onAndroid) ==
    IF onAndroid /\ hasText(zip, DocumentXml)
    THEN writeXml(zip, DocumentXml, enforceA4(zip.xml[DocumentXml]))
    ELSE zip

\* exportDocument from `new PizZip` to the block of the added images
synthesize(zip, form, onAndroid) ==
    enforcePageSize(
        removeDateBox(
            removeMailMerge(
                replaceLogo(processXmlFiles(zip, form, onAndroid),
                            form.logoBase64)),
            form.showDate),
        onAndroid)

-----------------------------------------------------------------------------
(* The added images *)

EMU_PER_INCH == 914400

\* Math.floor(6.27 * 914400) and Math.floor(9.69 * 914400)
maxWidthEmu == (627 * EMU_PER_INCH) \div 100
maxHeightEmu == (969 * EMU_PER_INCH) \div 100

RIdPrefix == <<"r", "I", "d">>

\* the number captured by /Id="rId(\d+)"/ in one relationship, or 0: the
\* digits must run to the closing quote
rIdNumber(rel) ==
    IF /\ HasAt(rel.Id, RIdPrefix, 1)
       /\ Len(rel.Id) > Len(RIdPrefix)
       /\ DigitRunEnd(rel.Id, Len(RIdPrefix) + 1) = Len(rel.Id)
    THEN ParseDecimal(SubSeq(rel.Id, Len(RIdPrefix) + 1, Len(rel.Id)))
    ELSE 0

maxRIdLast(relsContent) ==
    IF relsContent = <<>> THEN 0 ELSE rIdNumber(relsContent[Len(relsContent)])

\* let maxRId = 0; for (const match of rIdMatches) maxRId = Math.max(maxRId, ...)
maxRIdOf(relsContent) ==
    MaxOver([r \in 1..Len(relsContent) |-> rIdNumber(relsContent[r])])

\* 'word/media/image'
MediaImagePrefix ==
    <<"w", "o", "r", "d", "/", "m", "e", "d", "i", "a", "/", "i", "m", "a", "g", "e">>

ImageWord == <<"i", "m", "a", "g", "e">>

\* the number captured by f.match(/image(\d+)/), or 0 when nothing matches
imageNumber(f) ==
    LET hits == {i \in 1..Len(f) :
                    /\ HasAt(f, ImageWord, i)
                    /\ DigitRunEnd(f, i + Len(ImageWord)) >= i + Len(ImageWord)}
    IN  IF hits = {} THEN 0
        ELSE LET i == CHOOSE i \in hits : \A o \in hits : i <= o
             IN  ParseDecimal(SubSeq(f, i + Len(ImageWord),
                                     DigitRunEnd(f, i + Len(ImageWord))))

maxImageNumCount(zip) == Cardinality(DOMAIN zip.media)

\* the largest number among the files whose name starts with 'word/media/image'
maxImageNumOf(zip) ==
    LET nums == {imageNumber(f) :
                    f \in {g \in DOMAIN zip.media : HasAt(g, MediaImagePrefix, 1)}}
    IN  IF nums = {} THEN 0 ELSE CHOOSE n \in nums : \A o \in nums : n >= o

\* compressImage gives a JPEG data URL; when it fails the original is kept
compressedMime(image) == IF image.decodable THEN "image/jpeg" ELSE image.mime

\* mimeType.includes('jpeg') || mimeType.includes('jpg') ? 'jpeg' : 'png'
extOf(mimeType) ==
    IF mimeType \in {"image/jpeg", "image/jpg"}
    THEN <<"j", "p", "e", "g">> ELSE <<"p", "n", "g">>

\* `addedImage${imageNum}.${ext}`
addedImageName(imageNum, ext) ==
    <<"a", "d", "d", "e", "d", "I", "m", "a", "g", "e">>
    \o ToDecimal(imageNum) \o <<".">> \o ext

\* `word/media/${...}` and the relationship's target `media/${...}`
MediaDir == <<"m", "e", "d", "i", "a", "/">>
WordDir == <<"w", "o", "r", "d", "/">>

\* the size of the drawing: the page box when the image does not load, else
\* the box that keeps the image's aspect ratio
imgWidthOf(image) ==
    IF ~image.decodable \/ image.width * maxHeightEmu > maxWidthEmu * image.height
    THEN maxWidthEmu
    ELSE (maxHeightEmu * image.width) \div image.height

imgHeightOf(image) ==
    IF ~image.decodable THEN maxHeightEmu
    ELSE IF image.width * maxHeightEmu > maxWidthEmu * image.height
    THEN (maxWidthEmu * image.height) \div image.width
    ELSE maxHeightEmu

\* one pass of `for (let i = 0; i < addedImages.length; i++)`; i counts from 1,
\* so imageNum = maxImageNum + i and rId = maxRId + i
imageInsert(image, i, maxRId, maxImageNum) ==
    LET ext == extOf(compressedMime(image))
        imageNum == maxImageNum + i
        rId == maxRId + i
    IN  [rId |-> rId,
         imageNum |-> imageNum,
         imagePath |-> WordDir \o MediaDir \o addedImageName(imageNum, ext),
         relEntry |-> [Id |-> RIdPrefix \o ToDecimal(rId),
                       Type |-> "image",
                       Target |-> MediaDir \o addedImageName(imageNum, ext)],
         imgWidth |-> imgWidthOf(image),
         imgHeight |-> imgHeightOf(image)]

\* the paragraph written for one image
imageParagraph(img) ==
    <<WhiteSpace, Tok("w:p"), WhiteSpace,
      [Tok("w:pPr") EXCEPT !.t = <<"w:pageBreakBefore", "w:jc">>],
      WhiteSpace, Tok("w:r"), WhiteSpace,
      [k |-> "w:drawing", t |-> RIdPrefix \o ToDecimal(img.rId),
       w |-> img.imageNum, s |-> 0],
      [k |-> "wp:extent", t |-> <<>>, w |-> img.imgWidth, s |-> img.imgHeight],
      WhiteSpace, Tok("/w:r"), WhiteSpace, Tok("/w:p")>>

\* docContent.replace(/(<w:sectPr)/, imageParagraphs + '$1'): the first match
insertBeforeSectPr(docContent, imageParagraphs) ==
    LET i == KindIndexFrom(docContent, "w:sectPr", 1)
    IN  IF i = 0 THEN docContent
        ELSE SubSeq(docContent, 1, i - 1) \o imageParagraphs
             \o SubSeq(docContent, i, Len(docContent))

\* after the loop: the relationships appended before </Relationships> and the
\* paragraphs written into the document read before the loop
finishImages(zip, docContent, relsContent, imageInserts) ==
    LET withRels == [zip EXCEPT !.rels =
                        relsContent \o [n \in 1..Len(imageInserts) |->
                                           imageInserts[n].relEntry]]
    IN  writeXml(withRels, DocumentXml,
                 insertBeforeSectPr(docContent,
                     Flatten([n \in 1..Len(imageInserts) |->
                                 imageParagraph(imageInserts[n])])))

-----------------------------------------------------------------------------
(* Templates and forms the exports run on *)

Run(text) == <<Tok("w:r"), TextRun(text), Tok("/w:r")>>

\* <w:p w:rsidR="..."> ... </w:p>
Para(children) == <<[Tok("w:p") EXCEPT !.w = 1]>> \o children \o <<Tok("/w:p")>>

\* a cell of a template table; width 0: the cell declares no tcW
TemplateCell(text, width, style) ==
    <<Tok("w:tc"), [k |-> "w:tcPr", t |-> <<"w:vAlign">>, w |-> width, s |-> style],
      Tok("w:p"), Props("w:pPr", style, 0), Tok("w:r"), Props("w:rPr", style, 0),
      TextRun(text), Tok("/w:r"), Tok("/w:p"), Tok("/w:tc")>>

\* 'م' and 'الاسم'
HeaderNumber == <<"u0645">>
HeaderName == <<"u0627", "u0644", "u0627", "u0633", "u0645">>

\* the notes table as the application ships it: a header row and a data row
FullNotesTable ==
    <<Tok("w:tbl"), Props("w:tblPr", 1, 0), Tok("w:tblGrid"),
      Props("w:gridCol", 0, 700), Props("w:gridCol", 0, 2000),
      Props("w:gridCol", 0, 6000), Tok("/w:tblGrid"),
      Tok("w:tr"), Props("w:trPr", 1, 0)>>
    \o TemplateCell(HeaderNumber, 700, 1) \o TemplateCell(HeaderName, 2000, 1)
    \o TemplateCell(NotesLabel, 6000, 1)
    \o <<Tok("/w:tr"), Tok("w:tr"), Props("w:trPr", 2, 0)>>
    \o TemplateCell(<<"1">>, 700, 2) \o TemplateCell(<<>>, 2000, 2)
    \o TemplateCell(<<>>, 6000, 2)
    \o <<Tok("/w:tr"), Tok("/w:tbl")>>

\* a notes table of one row, with no table, row or cell properties
BareNotesTable ==
    <<Tok("w:tbl"), Tok("w:tr"), Tok("w:tc"), Tok("w:p"), Tok("w:r"),
      TextRun(NotesLabel), Tok("/w:r"), Tok("/w:p"), Tok("/w:tc"),
      Tok("/w:tr"), Tok("/w:tbl")>>

\* a table that does not hold the notes label
PlainTable ==
    <<Tok("w:tbl"), Tok("w:tr")>> \o TemplateCell(HeaderName, 2000, 3)
    \o <<Tok("/w:tr"), Tok("/w:tbl")>>

Key(field) ==
    ReplacementKeys[CHOOSE k \in 1..Len(ReplacementKeys) :
                        /\ ReplacementKeys[k].field = field
                        /\ \E i \in 1..Len(ReplacementKeys[k].key) :
                               ReplacementKeys[k].key[i] \in LatinLetters].key

LiteralKey(field) ==
    ReplacementKeys[CHOOSE k \in 1..Len(ReplacementKeys) :
                        /\ ReplacementKeys[k].field = field
                        /\ k \in {directTextKeys[n] : n \in 1..Len(directTextKeys)}].key

BracketAnchor(field) == <<LeftBracket>> \o Key(field) \o <<RightBracket>>

\* the paragraph of the distribution list: numbered, the sentinel in its run
ListParagraph ==
    Para(<<[Tok("w:pPr") EXCEPT !.t = <<"w:numPr">>]>> \o Run(CopyToSentinel))

LetterSize == <<Tok("w:sectPr"), [k |-> "w:pgSz", t |-> <<>>, w |-> 12240, s |-> 15840],
                Tok("/w:sectPr")>>

NoSize == <<Tok("w:sectPr"), Tok("/w:sectPr")>>

\* a letter: anchors each in a run of their own, the list, a table, the section
Letter(tables) ==
    Para(Run(BracketAnchor("subject_name")) \o Run(BracketAnchor("subject")))
    \o ListParagraph \o tables \o LetterSize

\* a letter whose anchors Word has split: brackets in runs of their own, the
\* literal anchors inside longer runs, the sentinel in a paragraph without
\* numbering
SplitLetter ==
    Para(Run(<<LeftBracket>>) \o Run(Key("to")) \o Run(<<RightBracket>>))
    \o Para(Run(<<"[", "[">>) \o Run(LiteralKey("subject")) \o Run(<<"]", "]">>))
    \o Para(Run(LiteralKey("subject_name") \o <<" ">> \o LiteralKey("to_the")))
    \o Para(Run(CopyToSentinel))
    \o NoSize

Documents ==
    {Letter(FullNotesTable), Letter(BareNotesTable),
     Letter(PlainTable \o FullNotesTable), Letter(PlainTable), SplitLetter}

TableDocuments == Documents \ {SplitLetter}

\* the letterhead holds the literal anchors of the two companies
Header1 ==
    Para(Run(LiteralKey("parent_company")) \o Run(LiteralKey("subsidiary_company")))

\* the date box and a second shape, each in its own <mc:AlternateContent>
Header3 ==
    <<Tok("mc:AlternateContent"),
      [k |-> "wp:anchor", t |-> <<DateBoxAnchorId>>, w |-> 0, s |-> 0],
      [k |-> "wp:docPr", t |-> DateBoxName, w |-> 0, s |-> 0],
      Tok("/mc:AlternateContent"),
      Tok("mc:AlternateContent"),
      [k |-> "wp:anchor", t |-> <<"1A2B3C4D">>, w |-> 0, s |-> 0],
      [k |-> "wp:docPr", t |-> HeaderName, w |-> 0, s |-> 0],
      Tok("/mc:AlternateContent")>>

\* a footer that repeats the letterhead, anchors included
Footer1 == Header1

Settings ==
    <<Tok("w:settings"), Tok("w:mailMerge"), Tok("w:dataSource"),
      Tok("/w:mailMerge"), Tok("/w:settings")>>

Rel(id, target) == [Id |-> id, Type |-> "image", Target |-> target]

MediaTarget(name) == SubSeq(name, Len(WordDir) + 1, Len(name))

Image10Jpeg ==
    <<"w", "o", "r", "d", "/", "m", "e", "d", "i", "a", "/",
      "i", "m", "a", "g", "e", "1", "0", ".", "j", "p", "e", "g">>

\* relationship tables: ids in order; ids out of order with a two-digit
\* maximum; an id that is not of the form rId<digits>
RelsTables ==
    {<<Rel(<<"r", "I", "d", "1">>, MediaTarget(Image1Png)),
       Rel(<<"r", "I", "d", "2">>, MediaTarget(Image2Png)),
       Rel(<<"r", "I", "d", "3">>, <<"s", "t", "y", "l", "e", "s">>)>>,
     <<Rel(<<"r", "I", "d", "1", "2">>, MediaTarget(Image1Png)),
       Rel(<<"r", "I", "d", "2">>, MediaTarget(Image2Png)),
       Rel(<<"r", "I", "d", "9">>, <<"s", "t", "y", "l", "e", "s">>)>>,
     <<Rel(<<"r", "I", "d", "4">>, MediaTarget(Image1Png)),
       Rel(<<"R", "5", "a">>, MediaTarget(Image2Png))>>}

DefaultRels == CHOOSE r \in RelsTables : Len(r) = 3 /\ r[1].Id = <<"r", "I", "d", "1">>

\* the watermark and the header logo, and a template with a third picture
DefaultMedia ==
    [n \in {Image1Png, Image2Png} |->
        IF n = Image1Png THEN "watermark" ELSE "header-logo"]

MediaSets ==
    {DefaultMedia,
     [n \in {Image1Png, Image2Png, Image10Jpeg} |->
        IF n = Image10Jpeg THEN "picture" ELSE DefaultMedia[n]]}

Package(document, rels, media) ==
    [xml |-> [n \in {DocumentXml, Header1Xml, Header3Xml, Footer1Xml, SettingsXml} |->
                 CASE n = DocumentXml -> document
                   [] n = Header1Xml -> Header1
                   [] n = Header3Xml -> Header3
                   [] n = Footer1Xml -> Footer1
                   [] OTHER -> Settings],
     hasRels |-> TRUE,
     rels |-> rels,
     media |-> media,
     recipientData |-> TRUE,
     broken |-> {}]

\* a file PizZip opens
Archive(pkg) == [valid |-> TRUE, pkg |-> pkg]

\* an archive without word/document.xml
WithoutDocument(pkg) ==
    [pkg EXCEPT !.xml = [n \in (DOMAIN pkg.xml) \ {DocumentXml} |-> pkg.xml[n]]]

\* an archive without word/_rels/document.xml.rels
WithoutRels(pkg) == [pkg EXCEPT !.hasRels = FALSE, !.rels = <<>>]

DefaultPackage == Package(Letter(FullNotesTable), DefaultRels, DefaultMedia)

\* an archive with entries whose compressed data cannot be read: asText()
\* of such a part throws
WithBroken(pkg, names) == [pkg EXCEPT !.broken = names]

\* a file that is not a zip archive
CorruptArchive == [valid |-> FALSE, pkg |-> WithoutRels(WithoutDocument(DefaultPackage))]

\* the first name a column can hold that makes it wider than the notes column
LongCellLen == (HUGE_WIDTH - PADDING) \div CHAR_WIDTH + 1

LongName == [i \in 1..LongCellLen |-> "u0645"]

CellTexts == {<<"<">>, LongName}

\* tableData: [['م', 'الاسم', 'ملاحظة'], ['1', '', '']]
DefaultGrid == <<<<HeaderNumber, HeaderName, NotesLabel>>, <<<<"1">>, <<>>, <<>>>>>>

\* a grid of rows x cols cells: the notes label heads column n (no column
\* when n = 0), text fills the first cell of every data row
Grid(rows, cols, n, text) ==
    [r \in 1..rows |->
        [c \in 1..cols |->
            IF r = 1 THEN (IF c = n THEN NotesLabel
                           ELSE IF c = 1 THEN HeaderNumber ELSE HeaderName)
            ELSE IF c = 1 THEN text ELSE <<>>]]

Grids ==
    {Grid(rows, cols, n, text) :
        rows \in 1..MaxRows, cols \in 1..MaxCols, n \in 0..MaxCols, text \in CellTexts}


\* the form as the application starts it, with an empty subject
DefaultForm ==
    [from |-> <<>>,
     parent_company |-> <<>>,
     subsidiary_company |-> <<>>,
     to |-> <<"u0627", "u0644", "u0623", "u062E", " ", "/", " ">>,
     to_the |-> <<"u0627", "u0644", "u0645", "u062D", "u062A", "u0631", "u0645">>,
     greetings |-> <<>>,
     subject_name |-> <<"u0627", "u0644", "u0645", "u0648", "u0636", "u0648", "u0639",
                        " ", "/", " ">>,
     subject |-> <<>>,
     ending |-> <<>>,
     sign |-> <<>>,
     copy_to |-> <<>>,
     logoBase64 |-> "",
     showDate |-> FALSE,
     useTable |-> FALSE,
     tableData |-> DefaultGrid]

\* the table switched on with every grid, and switched off
TableForms ==
    {[DefaultForm EXCEPT !.useTable = TRUE, !.tableData = g] : g \in Grids}
    \cup {DefaultForm}

Subjects ==
    {<<>>,
     <<"u0634", "u0643", "u0631">>,
     <<"a", "$", "b">>,
     <<"1", "2", "/", "3">>,
     <<"u0634", "\n", "A", "&", "B">>}

CopyTos ==
    {<<>>,
     <<"u0645", "u062F", "u064A", "u0631">>,
     <<" ", "u0645", "\n", "\n", "A", "<", " ">>,
     <<"A", "\n", "B", "$", "&">>}

ImageKinds ==
    {[mime |-> "image/png", width |-> 4, height |-> 3, decodable |-> TRUE],
     [mime |-> "image/png", width |-> 3, height |-> 4, decodable |-> FALSE]}

RECURSIVE ImageLists(_)
ImageLists(n) ==
    IF n = 0 THEN {<<>>}
    ELSE LET shorter == ImageLists(n - 1)
         IN  shorter \cup
             {Append(s, g) : s \in {t \in shorter : Len(t) = n - 1}, g \in ImageKinds}

-----------------------------------------------------------------------------
(* exportDocument: each call runs from one await to the next in one step *)

UnusedCall ==
    [pc |-> "unused", format |-> "", zip |-> <<>>, maxRId |-> 0,
     maxImageNum |-> 0, imageInserts |-> <<>>, output |-> <<>>]

Formats == {"docx", "pdf"}

\* const zip = new PizZip(templateBuffer): a copy of the template's parts
newPizZip(buffer) == buffer.pkg

\* the bytes written for an added image: the compressed picture, or the
\* picked file when compression failed
bytesOf(image) == IF image.decodable THEN "compressed-jpeg" ELSE "picked-file"

\* a call that has returned: its local variables are gone, and the document
\* stays only when it was saved
Returned(call, pc) ==
    IF pc = "done"
    THEN [UnusedCall EXCEPT !.pc = pc, !.format = call.format, !.output = call.output]
    ELSE [UnusedCall EXCEPT !.pc = pc]

\* the catch and finally blocks: "failed" shows the error alert, "cancelled"
\* (an error whose message holds 'cancelled') shows nothing
Settle(c, pc) ==
    /\ calls' = [calls EXCEPT ![c] = Returned(calls[c], pc)]
    /\ isExporting' = FALSE

\* an export button is pressed: the platform check, the loading state, the
\* cancellation flag reset, and the template asked for
StartExport(c, format) ==
    /\ ~isExporting
    /\ calls[c].pc = "unused"
    /\ \A d \in 1..(c - 1) : calls[d].pc # "unused"
    /\ IF platform \notin {"electron", "android"}
       THEN /\ calls' = [calls EXCEPT ![c].pc = "unsupported"]
            /\ UNCHANGED <<isExporting, exportCancelledRef>>
       ELSE /\ calls' = [calls EXCEPT ![c].pc = "loading", ![c].format = format]
            /\ isExporting' = TRUE
            /\ exportCancelledRef' = FALSE
    /\ UNCHANGED <<platform, templateBuffer, formData, addedImages, shaperVars, keysVars, serviceVars>>

\* the call once the parts are rewritten: the block of the added images is
\* entered (format === 'docx', images added, document and relationships
\* there), or the package is generated
Synthesized(call, zip, images) ==
    IF /\ images # <<>> /\ call.format = "docx"
       /\ hasText(zip, DocumentXml) /\ zip.hasRels
    THEN [call EXCEPT !.pc = "images",
                      !.zip = <<zip>>,
                      !.maxRId = maxRIdOf(zip.rels),
                      !.maxImageNum = maxImageNumOf(zip)]
    ELSE [call EXCEPT !.pc = "saving", !.output = <<zip>>]

\* zip.generate(...) where the call has come to it: the package is written,
\* or, for an archive with an entry that cannot be read, the library throws
\* and the catch block of the export takes over
Generate(c, call, generated) ==
    IF call.pc = "saving" /\ ~generated
    THEN Settle(c, "failed")
    ELSE /\ calls' = [calls EXCEPT ![c] = call]
         /\ UNCHANGED isExporting

\* the template arrives: the cancellation check, the archive opened, every
\* part rewritten; then either the first added image is handed to
\* compressImage, or the package is generated and handed to the saving step
TemplateLoaded(c, generated) ==
    /\ calls[c].pc = "loading"
    /\ generated \/ templateBuffer.pkg.broken # {}
    /\ IF exportCancelledRef
       THEN Settle(c, "cancelled")
       ELSE IF ~templateBuffer.valid
       THEN Settle(c, "failed")
       ELSE Generate(c, Synthesized(calls[c],
                                   synthesize(newPizZip(templateBuffer), formData,
                                              platform = "android"),
                                   addedImages),
                     generated)
    /\ UNCHANGED <<platform, templateBuffer, formData, addedImages, exportCancelledRef,
                 shaperVars, keysVars, serviceVars>>

\* the call after one pass of the loop over the added images
ImageRecorded(call, image, insert) ==
    [call EXCEPT !.zip = <<writeMedia(call.zip[1], insert.imagePath, bytesOf(image))>>,
                 !.imageInserts = Append(call.imageInserts, insert)]

ImageWritten(call, image) ==
    ImageRecorded(call, image,
                  imageInsert(image, Len(call.imageInserts) + 1,
                              call.maxRId, call.maxImageNum))

\* the call after the loop: relationships and paragraphs written, the package
\* generated
Generated(call) ==
    [call EXCEPT !.pc = "saving",
                 !.zip = <<>>,
                 !.output = <<finishImages(call.zip[1], call.zip[1].xml[DocumentXml],
                                           call.zip[1].rels, call.imageInserts)>>]

\* one added image: compressed, written to the media folder, its relationship
\* and size recorded; after the last one the relationships and the paragraphs
\* are written, the package is generated and the cancellation flag is checked
ProcessImage(c, generated) ==
    /\ calls[c].pc = "images"
    /\ generated \/ calls[c].zip[1].broken # {}
    /\ IF Len(calls[c].imageInserts) + 1 < Len(addedImages)
       THEN /\ calls' = [calls EXCEPT
                           ![c] = ImageWritten(calls[c], addedImages[
                                                   Len(calls[c].imageInserts) + 1])]
            /\ UNCHANGED isExporting
       ELSE IF exportCancelledRef
       THEN Settle(c, "cancelled")
       ELSE Generate(c, Generated(ImageWritten(calls[c], addedImages[
                                                  Len(calls[c].imageInserts) + 1])),
                     generated)
    /\ UNCHANGED <<platform, templateBuffer, formData, addedImages, exportCancelledRef,
                 shaperVars, keysVars, serviceVars>>

\* the saving or converting step ends: saved, refused with an error, or
\* dropped because the export was cancelled
FinishExport(c, saved) ==
    /\ calls[c].pc = "saving"
    /\ IF exportCancelledRef THEN Settle(c, "cancelled")
       ELSE IF saved THEN Settle(c, "done")
       ELSE Settle(c, "failed")
    /\ UNCHANGED <<platform, templateBuffer, formData, addedImages, exportCancelledRef,
                 shaperVars, keysVars, serviceVars>>

\* setExportFormat(format): the format of the export that was started last
exportFormat ==
    LET started == {c \in 1..MaxExports : calls[c].pc # "unused"}
    IN  IF started = {} THEN ""
        ELSE calls[CHOOSE c \in started : \A d \in started : c >= d].format

\* the cancel button or the Escape key while an export is shown; a Word
\* export shows no button and the key leaves it alone
CancelExport ==
    /\ isExporting
    /\ exportFormat # "docx"
    /\ exportCancelledRef' = TRUE
    /\ isExporting' = FALSE
    /\ UNCHANGED <<platform, templateBuffer, formData, addedImages, calls,
                 shaperVars, keysVars, serviceVars>>

ExportOff ==
    /\ platform = "electron"
    /\ templateBuffer = Archive(DefaultPackage)
    /\ formData = DefaultForm
    /\ addedImages = <<>>
    /\ isExporting = FALSE
    /\ exportCancelledRef = FALSE
    /\ calls = [c \in 1..MaxExports |-> UnusedCall]

ConversionMethods ==
    {"convertToPdf", "convertToImage", "convertToImages",
     "convertToImageFiles", "convertDocumentFromPath"}

\* the methods that hand a ProgressCallback to the converter
ProgressMethods == {"convertToImageFiles", "convertDocumentFromPath"}

UnusedPluginCall ==
    [method |-> "", hasInput |-> FALSE, pc |-> "unused", current |-> 0, total |-> 0,
     result |-> [success |-> FALSE, error |-> "", ready |-> FALSE,
                 initialized |-> FALSE]]

LOKOff ==
    /\ loaded = FALSE
    /\ converter = "null"
    /\ initAttempted = FALSE
    /\ executor = <<>>
    /\ pluginCalls = [c \in 1..MaxPluginCalls |-> UnusedPluginCall]
    /\ mainLooper = <<>>
    /\ dispatched = 0

\* the URI an intent holds when it holds none
NoUri == 0

\* handleIntent(null), and the value of `handling.intent` before any intent
NullIntent ==
    [action |-> "", type |-> "", data |-> NoUri, hasStream |-> FALSE, stream |-> <<>>]

\* the converter before a call
IdleJob ==
    [pc |-> "idle", method |-> "", isPdf |-> FALSE, combinePages |-> FALSE,
     pageCount |-> 0, maxPages |-> 0, dpi |-> 0, rendered |-> 0, totalHeight |-> 0,
     input |-> "exists", tempPdf |-> "none", outcome |-> "", error |-> ""]

\* a conversion handler that was not invoked
UnusedConversion ==
    [pc |-> "unused", handler |-> "", isPdf |-> FALSE, combinePages |-> FALSE,
     files |-> <<>>, timer |-> "none", killed |-> FALSE,
     result |-> [state |-> "pending", success |-> FALSE, message |-> "",
                 keys |-> {}, buffer |-> <<>>, images |-> <<>>]]

RenderOff ==
    /\ exportCancelled = FALSE
    /\ currentExportProcess = 0
    /\ conversions = [c \in 1..MaxConversions |-> UnusedConversion]

\* no intent was delivered and nothing is shared
ShareOff ==
    /\ processedIntentUris = {}
    /\ pendingSharedImagePaths = <<>>
    /\ skippedSharedCount = 0
    /\ cacheFiles = {}
    /\ handling = [pc |-> "idle", intent |-> NullIntent, remaining |-> <<>>]
    /\ delivered = 0
    /\ passedUris = <<>>
    /\ opened = <<>>
    /\ mimeSkips = 0
    /\ sharedResults = <<>>

\* no method of the converter was called
ConverterOff == job = IdleJob

ServiceOff == RenderOff /\ LOKOff /\ ShareOff /\ ConverterOff

ShaperOff ==
    /\ shaperPc = "off"
    /\ shaperText = <<>>
    /\ shaperResult = <<>>

KeysOff ==
    /\ keysPc = "off"
    /\ keysList = <<>>
    /\ keysText = <<>>
    /\ keysResult = <<>>

\* forms and templates that differ in the table
TableInputs ==
    /\ platform \in {"electron", "android"}
    /\ templateBuffer \in {Archive(Package(d, DefaultRels, DefaultMedia)) :
                              d \in TableDocuments}
    /\ formData \in TableForms
    /\ addedImages = <<>>

\* forms and templates that differ in the anchors and the values
AnchorInputs ==
    /\ platform = "electron"
    /\ templateBuffer \in {Archive(Package(d, DefaultRels, DefaultMedia)) :
                              d \in {Letter(FullNotesTable), SplitLetter}}
    /\ formData \in {[DefaultForm EXCEPT !.subject = s, !.copy_to = l,
                                         !.showDate = b,
                                         !.logoBase64 = IF b THEN "logo" ELSE "",
                                         !.parent_company = IF b THEN s ELSE <<>>] :
                        s \in Subjects, l \in CopyTos, b \in BOOLEAN}
    /\ addedImages = <<>>

\* added images over templates that differ in relationships and media
ImageInputs ==
    /\ platform = "electron"
    /\ templateBuffer \in {Archive(Package(Letter(FullNotesTable), r, m)) :
                              r \in RelsTables, m \in MediaSets}
    /\ formData = DefaultForm
    /\ addedImages \in ImageLists(MaxImages)

\* files that are no archive or lack a part, and a platform with no export
LoaderInputs ==
    /\ formData = DefaultForm
    /\ addedImages \in {<<>>, <<CHOOSE g \in ImageKinds : g.decodable>>}
    /\ \/ /\ platform = "electron"
          /\ templateBuffer \in {CorruptArchive,
                                 Archive(WithoutDocument(DefaultPackage)),
                                 Archive(WithoutRels(DefaultPackage)),
                                 Archive(WithBroken(DefaultPackage, {Header1Xml})),
                                 Archive(WithBroken(DefaultPackage, {DocumentXml}))}
       \/ /\ platform = "web"
          /\ templateBuffer = Archive(DefaultPackage)

Init ==
    /\ ShaperOff
    /\ KeysOff
    /\ ServiceOff
    /\ isExporting = FALSE
    /\ exportCancelledRef = FALSE
    /\ calls = [c \in 1..MaxExports |-> UnusedCall]
    /\ \/ TableInputs
       \/ AnchorInputs
       \/ ImageInputs
       \/ LoaderInputs

Next ==
    \/ \E c \in 1..MaxExports, format \in Formats :
           StartExport(c, format)
    \/ \E c \in 1..MaxExports, generated \in BOOLEAN :
           TemplateLoaded(c, generated)
    \/ \E c \in 1..MaxExports, generated \in BOOLEAN :
           ProcessImage(c, generated)
    \/ \E c \in 1..MaxExports, saved \in BOOLEAN :
           FinishExport(c, saved)
    \/ CancelExport

Spec == Init /\ [][Next]_vars

-----------------------------------------------------------------------------
(* The shaper applied to bounded inputs *)

ShaperAlphabet == {"u0627", "u0644", " ", "A", "1", "/", ".", "\n", "$"}

\* "القسم 12/2024 ABC."
MixedExample ==
    <<"u0627", "u0644", "u0642", "u0633", "u0645", " ", "1", "2", "/",
      "2", "0", "2", "4", " ", "A", "B", "C", ".">>

ShaperInit ==
    /\ KeysOff
    /\ ExportOff
    /\ ServiceOff
    /\ shaperPc = "input"
    /\ shaperText \in TextsUpTo(ShaperAlphabet, MaxTextLen) \cup {MixedExample}
    /\ shaperResult = <<>>

Shape ==
    /\ shaperPc = "input"
    /\ shaperResult' = fixArabicText(shaperText)
    /\ shaperPc' = "shaped"
    /\ UNCHANGED <<shaperText, keysVars, exportVars, serviceVars>>

ShaperNext == Shape

SpecShaper == ShaperInit /\ [][ShaperNext]_vars

-----------------------------------------------------------------------------
(* The literal pass applied to bounded keys and texts *)

KeyAlphabet == {"a", "b"}

\* the lists of two different keys of at most MaxKeyLen characters
KeyLists ==
    {<<p, q>> : p, q \in TextsUpTo(KeyAlphabet, MaxKeyLen) \ {<<>>}} \
    {<<p, p>> : p \in TextsUpTo(KeyAlphabet, MaxKeyLen)}

\* replacements[key] for the n-th key: a text no key occurs in
keyValue(n) == <<"(", DigitChars[n + 1], ")">>

KeysInit ==
    /\ ShaperOff
    /\ ExportOff
    /\ ServiceOff
    /\ keysPc = "input"
    /\ keysList \in KeyLists
    /\ keysText \in TextsUpTo(KeyAlphabet, MaxKeyTextLen)
    /\ keysResult = <<>>

\* the keys sorted, joined into patternAll, and the text replaced
ReplaceKeys ==
    /\ keysPc = "input"
    /\ keysResult' =
           replaceAllKeys(keysText, keysList,
                          sortLongestFirst(keysList,
                                           [n \in 1..Len(keysList) |-> n]),
                          [n \in 1..Len(keysList) |-> keyValue(n)])
    /\ keysPc' = "replaced"
    /\ UNCHANGED <<keysList, keysText, shaperVars, exportVars, serviceVars>>

KeysNext == ReplaceKeys

SpecLiteralKeys == KeysInit /\ [][KeysNext]_vars

-----------------------------------------------------------------------------
(* The rendering service of the Electron main process: the handlers          *)
(* 'cancel-export', 'convert-docx-to-pdf-word' and                           *)
(* 'convert-docx-to-image-word' of electron/main.cjs.  A page picture is     *)
(* identified by the number of its page.                                     *)

\* the numbers of pages the converters are run on
PageCounts == {1, 2, MaxPages}

\* the UTF-16 code unit of a character of a file name
CharCode(ch) ==
    CASE ch = "-" -> 45
      [] ch = "." -> 46
      [] ch \in Digits -> 48 + DigitValue(ch)
      [] ch = "a" -> 97
      [] ch = "e" -> 101
      [] ch = "g" -> 103
      [] ch = "n" -> 110
      [] ch = "p" -> 112

RECURSIVE padStart(_, _)
padStart(digits, width) ==
    IF Len(digits) >= width THEN digits ELSE padStart(<<"0">> \o digits, width)

\* the file pdf-poppler writes for a page with out_prefix 'page' and format
\* 'png': the page number padded to the width of the last page's number
pageFile(pg, lastPage) ==
    <<"p", "a", "g", "e", "-">>
    \o padStart(ToDecimal(pg), Len(ToDecimal(lastPage)))
    \o <<".", "p", "n", "g">>

\* the page whose picture the file holds
pageOf(file) == ParseDecimal(SubSeq(file, 6, Len(file) - 4))

\* fs.readdirSync(outputDir): the files of the pages, in the order the
\* directory lists them
readdirSync(pages, descending) ==
    [i \in 1..pages |-> pageFile(IF descending THEN pages + 1 - i ELSE i, pages)]

RECURSIVE comesBefore(_, _)
\* a < b for two strings: the order of Array.prototype.sort without a
\* comparator
comesBefore(a, b) ==
    IF b = <<>> THEN FALSE
    ELSE IF a = <<>> THEN TRUE
    ELSE IF Head(a) = Head(b) THEN comesBefore(Tail(a), Tail(b))
    ELSE CharCode(Head(a)) < CharCode(Head(b))

\* the files left in the order the directory lists them
sortNamesSkipped(files) == files

RECURSIVE sortNames(_)
\* files.sort()
sortNames(files) ==
    IF files = <<>> THEN <<>>
    ELSE LET first == CHOOSE i \in 1..Len(files) :
                          \A j \in 1..Len(files) :
                              j = i \/ comesBefore(files[i], files[j])
         IN  <<files[first]>>
             \o sortNames([j \in 1..(Len(files) - 1) |->
                              IF j < first THEN files[j] ELSE files[j + 1]])

\* resolve({ success: true, buffer }), resolve({ success: true, images }),
\* resolve({ success: false, error }) and reject(new Error(message))
ResolvedBuffer(buffer) ==
    [state |-> "resolved", success |-> TRUE, message |-> "",
     keys |-> {"success", "buffer"}, buffer |-> buffer, images |-> <<>>]

ResolvedImages(images) ==
    [state |-> "resolved", success |-> TRUE, message |-> "",
     keys |-> {"success", "images"}, buffer |-> <<>>, images |-> images]

ResolvedError(message) ==
    [state |-> "resolved", success |-> FALSE, message |-> message,
     keys |-> {"success", "error"}, buffer |-> <<>>, images |-> <<>>]

Rejected(message) ==
    [state |-> "rejected", success |-> FALSE, message |-> message,
     keys |-> {}, buffer |-> <<>>, images |-> <<>>]

\* a promise keeps its first settlement
settle(conversion, result) ==
    IF conversion.result.state = "pending"
    THEN [conversion EXCEPT !.result = result]
    ELSE conversion

\* the pictures of the sorted files: drawn one under the other on one canvas,
\* or pushed one by one with pageNum: i + 1
imageResult(files, combinePages) ==
    IF combinePages
    THEN ResolvedBuffer([i \in 1..Len(files) |-> pageOf(files[i])])
    ELSE ResolvedImages([i \in 1..Len(files) |->
                            [buffer |-> <<pageOf(files[i])>>, pageNum |-> i]])

\* ipcMain.handle('convert-docx-to-pdf-word'): the flag reset, PowerShell
\* spawned and tracked and the timer set; `spawned` is FALSE when writing the
\* file or spawn throws, which the catch of the executor turns into reject(err)
ConvertDocxToPdfWord(c, spawned) ==
    /\ conversions[c].pc = "unused"
    /\ \A d \in 1..(c - 1) : conversions[d].pc # "unused"
    /\ exportCancelled' = FALSE
    /\ currentExportProcess' = IF spawned THEN c ELSE currentExportProcess
    /\ conversions' = [conversions EXCEPT ![c] =
           IF spawned
           THEN [@ EXCEPT !.pc = "word", !.handler = "pdf", !.timer = "armed"]
           ELSE [settle(@, Rejected("err")) EXCEPT !.pc = "ended", !.handler = "pdf"]]
    /\ UNCHANGED <<exportVars, shaperVars, keysVars, lokVars, androidVars>>

\* ipcMain.handle('convert-docx-to-image-word'): the flag reset; a PDF goes
\* to pdf-poppler at once, any other file to PowerShell first, with the timer
\* set; `spawned` is FALSE when writing the file or spawn throws
ConvertDocxToImageWord(c, combinePages, isPdf, spawned) ==
    /\ conversions[c].pc = "unused"
    /\ \A d \in 1..(c - 1) : conversions[d].pc # "unused"
    /\ exportCancelled' = FALSE
    /\ currentExportProcess' = IF isPdf \/ ~spawned THEN currentExportProcess ELSE c
    /\ conversions' = [conversions EXCEPT ![c] =
           IF ~spawned
           THEN [settle(@, Rejected("err"))
                 EXCEPT !.pc = "ended", !.handler = "image", !.isPdf = isPdf,
                        !.combinePages = combinePages]
           ELSE [@ EXCEPT !.pc = IF isPdf THEN "poppler" ELSE "word",
                          !.handler = "image",
                          !.isPdf = isPdf,
                          !.combinePages = combinePages,
                          !.timer = IF isPdf THEN "none" ELSE "armed"]]
    /\ UNCHANGED <<exportVars, shaperVars, keysVars, lokVars, androidVars>>

\* ipcMain.handle('cancel-export'): the flag set, the tracked process killed
\* and forgotten
CancelExportHandler ==
    /\ exportCancelled' = TRUE
    /\ currentExportProcess' = 0
    /\ UNCHANGED <<conversions, exportVars, shaperVars, keysVars, lokVars, androidVars>>

\* ps.on('close'): PowerShell ended, by itself or killed, with the PDF written
\* (code === 0 && fs.existsSync(tempPdfPath)) or not
ProcessClose(c, converted) ==
    /\ conversions[c].pc = "word"
    /\ currentExportProcess' = 0
    /\ conversions' = [conversions EXCEPT ![c] =
           IF exportCancelled
           THEN [settle(@, Rejected("Export cancelled")) EXCEPT !.pc = "ended"]
           ELSE IF ~converted
           THEN [settle(@, Rejected("Word conversion failed")) EXCEPT !.pc = "ended"]
           ELSE IF @.handler = "pdf"
           THEN [settle(@, ResolvedBuffer(<<"pdf">>)) EXCEPT !.pc = "ended"]
           ELSE [@ EXCEPT !.pc = "poppler"]]
    /\ UNCHANGED <<exportCancelled, exportVars, shaperVars, keysVars, lokVars, androidVars>>

\* ps.on('error'): PowerShell could not be started
ProcessError(c) ==
    /\ conversions[c].pc = "word"
    /\ conversions[c].result.state = "pending"
    /\ conversions' = [conversions EXCEPT ![c] =
                          settle(@, Rejected("Failed to start PowerShell"))]
    /\ UNCHANGED <<exportCancelled, currentExportProcess,
                 exportVars, shaperVars, keysVars, lokVars, androidVars>>

\* the callback of the timer without ps.kill() and without the rejection
ConversionTimeoutIdle(c) ==
    /\ conversions[c].timer = "armed"
    /\ conversions' = [conversions EXCEPT ![c].timer = "fired"]
    /\ UNCHANGED <<exportCancelled, currentExportProcess,
                 exportVars, shaperVars, keysVars, lokVars, androidVars>>

\* the setTimeout of the two Word conversions, 60 or 90 seconds after the
\* spawn and never cleared: ps.kill(), which ends PowerShell when it still
\* runs, and the rejection
ConversionTimeout(c) ==
    /\ conversions[c].timer = "armed"
    /\ conversions' = [conversions EXCEPT ![c] =
           [settle(@, Rejected("Word conversion timeout"))
            EXCEPT !.timer = "fired", !.killed = (conversions[c].pc = "word")]]
    /\ UNCHANGED <<exportCancelled, currentExportProcess,
                 exportVars, shaperVars, keysVars, lokVars, androidVars>>

\* await pdfPoppler.convert(...) returns: the files read, sorted and handed
\* back, or an error (none of the files written included) that the PDF path
\* resolves and the Word path rejects
PopplerDone(c, pages, descending, written) ==
    /\ conversions[c].pc = "poppler"
    /\ conversions' = [conversions EXCEPT ![c] =
           IF written
           THEN [settle([@ EXCEPT !.files = sortNames(readdirSync(pages, descending))],
                        imageResult(sortNames(readdirSync(pages, descending)),
                                    @.combinePages))
                 EXCEPT !.pc = "ended"]
           ELSE IF @.isPdf
           THEN [settle(@, ResolvedError("PDF conversion failed")) EXCEPT !.pc = "ended"]
           ELSE [settle(@, Rejected("Image conversion failed")) EXCEPT !.pc = "ended"]]
    /\ UNCHANGED <<exportCancelled, currentExportProcess,
                 exportVars, shaperVars, keysVars, lokVars, androidVars>>

RenderInit ==
    /\ ExportOff
    /\ ShaperOff
    /\ KeysOff
    /\ ServiceOff

RenderNext ==
    \/ \E c \in 1..MaxConversions, spawned \in BOOLEAN : ConvertDocxToPdfWord(c, spawned)
    \/ \E c \in 1..MaxConversions, combinePages \in BOOLEAN, isPdf \in BOOLEAN,
          spawned \in BOOLEAN :
           ConvertDocxToImageWord(c, combinePages, isPdf, spawned)
    \/ CancelExportHandler
    \/ \E c \in 1..MaxConversions, converted \in BOOLEAN : ProcessClose(c, converted)
    \/ \E c \in 1..MaxConversions : ProcessError(c)
    \/ \E c \in 1..MaxConversions : ConversionTimeout(c)
    \/ \E c \in 1..MaxConversions, pages \in PageCounts, descending \in BOOLEAN,
          written \in BOOLEAN :
           PopplerDone(c, pages, descending, written)

SpecRender == RenderInit /\ [][RenderNext]_vars

\* the event loop runs the callback of every timer that was set
SpecRenderTimers ==
    SpecRender /\ \A c \in 1..MaxConversions : WF_vars(ConversionTimeout(c))

-----------------------------------------------------------------------------
(* The LibreOfficeKit plugin of the Android application (LOKPlugin.java) and *)
(* LOKConverter.convertToImagesViaPdfWithProgress.  Plugin methods run on    *)
(* the bridge thread, conversions on the single thread of `executor`, and    *)
(* events and results go through the queue of the main looper.               *)

\* progress.put("percent", (int) ((current * 100.0) / total)), computed the
\* other way round: the share of one page, times the pages done
percentPerPage(current, total) == (100 \div total) * current

\* progress.put("percent", (int) ((current * 100.0) / total))
percent(current, total) == (current * 100) \div total

\* new Handler(Looper.getMainLooper()).post(() -> notifyListeners(
\*     "conversionProgress", progress))
progressMessage(c, current, total) ==
    [kind |-> "conversionProgress", call |-> c, current |-> current, total |-> total,
     percent |-> percent(current, total), success |-> FALSE]

\* new Handler(Looper.getMainLooper()).post(() -> call.resolve(result))
resolveMessage(c, success) ==
    [kind |-> "resolve", call |-> c, current |-> 0, total |-> 0, percent |-> 0,
     success |-> success]

\* load() with LibreOffice initialized at startup
LoadEager ==
    /\ ~loaded
    /\ loaded' = TRUE
    /\ initAttempted' = TRUE
    /\ converter' = "ready"
    /\ UNCHANGED <<executor, pluginCalls, mainLooper, dispatched,
                 renderVars, androidVars, exportVars, shaperVars, keysVars>>

\* load(): the plugin is loaded, LibreOffice is left alone
Load ==
    /\ ~loaded
    /\ loaded' = TRUE
    /\ UNCHANGED <<converter, initAttempted, executor, pluginCalls, mainLooper,
                 dispatched, renderVars, androidVars, exportVars, shaperVars, keysVars>>

\* the next plugin call may be made: the plugin is loaded and the calls
\* before it were made
Callable(c) ==
    /\ loaded
    /\ pluginCalls[c].pc = "unused"
    /\ \A d \in 1..(c - 1) : pluginCalls[d].pc # "unused"

\* isReady(call): resolved at once from the fields
IsReady(c) ==
    /\ Callable(c)
    /\ pluginCalls' = [pluginCalls EXCEPT
                         ![c].method = "isReady",
                         ![c].pc = "resolved",
                         ![c].result = [success |-> TRUE, error |-> "",
                                        ready |-> converter = "ready",
                                        initialized |-> initAttempted]]
    /\ UNCHANGED <<loaded, converter, initAttempted, executor, mainLooper, dispatched,
                 renderVars, androidVars, exportVars, shaperVars, keysVars>>

\* result.put("error", ...) of a conversion method called without its input
noInput(method) ==
    IF method = "convertDocumentFromPath"
    THEN "No input path provided"
    ELSE "No document data provided"

\* the message of the exception a conversion method throws when
\* converter == null || !converter.isReady(), up to the initError it may add
notAvailable(method) ==
    IF method = "convertToPdf"
    THEN "LibreOffice not available"
    ELSE "LibreOfficeKit not initialized"

\* one of the conversion methods: without its input it resolves at once with
\* success: false, with it the conversion is handed to the executor
Convert(c, method, hasInput) ==
    /\ Callable(c)
    /\ pluginCalls' = [pluginCalls EXCEPT
                         ![c].method = method,
                         ![c].hasInput = hasInput,
                         ![c].pc = IF hasInput THEN "queued" ELSE "resolved",
                         ![c].result.error = IF hasInput THEN "" ELSE noInput(method)]
    /\ executor' = IF hasInput THEN Append(executor, c) ELSE executor
    /\ UNCHANGED <<loaded, converter, initAttempted, mainLooper, dispatched,
                 renderVars, androidVars, exportVars, shaperVars, keysVars>>

\* ensureInitialized() with the constructor called each time
ensureInitializedAgain(constructed) == constructed

\* ensureInitialized(): the converter as it is after the call; `constructed`
\* is what new LOKConverter(getContext()) comes to: "ready", "notReady", or
\* "null" when the constructor throws
ensureInitialized(constructed) == IF initAttempted THEN converter ELSE constructed

\* the task of the call once the executor has finished it: the result posted
Finished(c, success, error) ==
    /\ pluginCalls' = [pluginCalls EXCEPT ![c].pc = "posted",
                                          ![c].result.success = success,
                                          ![c].result.error = error]
    /\ mainLooper' = Append(mainLooper, resolveMessage(c, success))
    /\ executor' = Tail(executor)

\* the executor takes the next task: ensureInitialized(), the ready check, and
\* the conversion; a method with progress opens the PDF of `pages` pages and
\* goes on page by page, any other method converts and posts its result
ExecutorStart(c, constructed, pages, converted) ==
    /\ executor # <<>> /\ Head(executor) = c
    /\ pluginCalls[c].pc = "queued"
    /\ initAttempted' = TRUE
    /\ converter' = ensureInitialized(constructed)
    /\ IF ensureInitialized(constructed) # "ready"
       THEN Finished(c, FALSE, notAvailable(pluginCalls[c].method))
       ELSE IF ~converted
       THEN Finished(c, FALSE, "Conversion failed")
       ELSE IF pluginCalls[c].method \notin ProgressMethods
       THEN Finished(c, TRUE, "")
       ELSE IF pages = 0
       THEN Finished(c, FALSE, "Conversion failed")
       ELSE /\ pluginCalls' = [pluginCalls EXCEPT ![c].pc = "rendering",
                                                 ![c].total = pages]
            /\ UNCHANGED <<executor, mainLooper>>
    /\ UNCHANGED <<loaded, dispatched, renderVars, androidVars, exportVars, shaperVars, keysVars>>

\* one pass of the loop over the pages: the page rendered and saved and
\* callback.onProgress(i + 1, pageCount) called, or an exception thrown that
\* the plugin method catches
RenderPage(c, rendered) ==
    /\ pluginCalls[c].pc = "rendering"
    /\ pluginCalls[c].current < pluginCalls[c].total
    /\ IF rendered
       THEN /\ pluginCalls' = [pluginCalls EXCEPT ![c].current = @ + 1]
            /\ mainLooper' = Append(mainLooper,
                                    progressMessage(c, pluginCalls[c].current + 1,
                                                    pluginCalls[c].total))
            /\ UNCHANGED executor
       ELSE Finished(c, FALSE, "e.getMessage()")
    /\ UNCHANGED <<loaded, converter, initAttempted, dispatched,
                 renderVars, androidVars, exportVars, shaperVars, keysVars>>

\* after the loop: the paths of the pages posted as the result
FinishRender(c) ==
    /\ pluginCalls[c].pc = "rendering"
    /\ pluginCalls[c].current = pluginCalls[c].total
    /\ Finished(c, TRUE, "")
    /\ UNCHANGED <<loaded, converter, initAttempted, dispatched,
                 renderVars, androidVars, exportVars, shaperVars, keysVars>>

\* the main looper runs the next message of its queue: a progress event goes
\* to the listeners, a result resolves its call
Dispatch ==
    /\ dispatched < Len(mainLooper)
    /\ dispatched' = dispatched + 1
    /\ pluginCalls' =
           IF mainLooper[dispatched + 1].kind = "resolve"
           THEN [pluginCalls EXCEPT ![mainLooper[dispatched + 1].call].pc = "resolved"]
           ELSE pluginCalls
    /\ UNCHANGED <<loaded, converter, initAttempted, executor, mainLooper,
                 renderVars, androidVars, exportVars, shaperVars, keysVars>>

LOKInit ==
    /\ ExportOff
    /\ ShaperOff
    /\ KeysOff
    /\ ServiceOff

LOKNext ==
    \/ Load
    \/ \E c \in 1..MaxPluginCalls : IsReady(c)
    \/ \E c \in 1..MaxPluginCalls, method \in ConversionMethods, hasInput \in BOOLEAN :
           Convert(c, method, hasInput)
    \/ \E c \in 1..MaxPluginCalls, constructed \in {"ready", "notReady", "null"},
          pages \in 0..MaxDocumentPages, converted \in BOOLEAN :
           ExecutorStart(c, constructed, pages, converted)
    \/ \E c \in 1..MaxPluginCalls, rendered \in BOOLEAN : RenderPage(c, rendered)
    \/ \E c \in 1..MaxPluginCalls : FinishRender(c)
    \/ Dispatch

SpecLOK == LOKInit /\ [][LOKNext]_vars

\* the thread of the executor runs the tasks handed to it, and the main
\* looper the messages posted to it
SpecLOKRuns ==
    /\ SpecLOK
    /\ WF_vars(\E c \in 1..MaxPluginCalls, constructed \in {"ready", "notReady", "null"},
                  pages \in 0..MaxDocumentPages, converted \in BOOLEAN :
                   ExecutorStart(c, constructed, pages, converted))
    /\ WF_vars(\E c \in 1..MaxPluginCalls, rendered \in BOOLEAN : RenderPage(c, rendered))
    /\ WF_vars(\E c \in 1..MaxPluginCalls : FinishRender(c))
    /\ WF_vars(Dispatch)

-----------------------------------------------------------------------------
(* Shared files of the Android application: MainActivity.handleIntent and    *)
(* processSharedUri on the main thread, LOKPlugin.getSharedImage on the      *)
(* thread of the plugin.  A URI is a number, a MIME type, a file name and an *)
(* extension are strings of characters.                                      *)

\* "image/png"
ImagePng ==
    <<"i", "m", "a", "g", "e", "/", "p", "n", "g">>

\* "image/jpeg"
ImageJpeg ==
    <<"i", "m", "a", "g", "e", "/", "j", "p", "e", "g">>

\* "image/jpg"
ImageJpg ==
    <<"i", "m", "a", "g", "e", "/", "j", "p", "g">>

\* "image/webp"
ImageWebp ==
    <<"i", "m", "a", "g", "e", "/", "w", "e", "b", "p">>

\* "image/gif"
ImageGif ==
    <<"i", "m", "a", "g", "e", "/", "g", "i", "f">>

\* "image/bmp"
ImageBmp ==
    <<"i", "m", "a", "g", "e", "/", "b", "m", "p">>

\* "application/pdf"
ApplicationPdf ==
    <<"a", "p", "p", "l", "i", "c", "a", "t", "i", "o", "n", "/", "p", "d",
      "f">>

\* "application/msword"
ApplicationMsword ==
    <<"a", "p", "p", "l", "i", "c", "a", "t", "i", "o", "n", "/", "m", "s",
      "w", "o", "r", "d">>

\* "application/vnd.openxmlformats-officedocument.wordprocessingml.document"
WordprocessingmlDocument ==
    <<"a", "p", "p", "l", "i", "c", "a", "t", "i", "o", "n", "/", "v", "n",
      "d", ".", "o", "p", "e", "n", "x", "m", "l", "f", "o", "r", "m", "a",
      "t", "s", "-", "o", "f", "f", "i", "c", "e", "d", "o", "c", "u", "m",
      "e", "n", "t", ".", "w", "o", "r", "d", "p", "r", "o", "c", "e", "s",
      "s", "i", "n", "g", "m", "l", ".", "d", "o", "c", "u", "m", "e", "n",
      "t">>

\* "application/vnd.ms-powerpoint"
MsPowerpoint ==
    <<"a", "p", "p", "l", "i", "c", "a", "t", "i", "o", "n", "/", "v", "n",
      "d", ".", "m", "s", "-", "p", "o", "w", "e", "r", "p", "o", "i", "n",
      "t">>

\* "application/vnd.openxmlformats-officedocument.presentationml.presentation"
PresentationmlPresentation ==
    <<"a", "p", "p", "l", "i", "c", "a", "t", "i", "o", "n", "/", "v", "n",
      "d", ".", "o", "p", "e", "n", "x", "m", "l", "f", "o", "r", "m", "a",
      "t", "s", "-", "o", "f", "f", "i", "c", "e", "d", "o", "c", "u", "m",
      "e", "n", "t", ".", "p", "r", "e", "s", "e", "n", "t", "a", "t", "i",
      "o", "n", "m", "l", ".", "p", "r", "e", "s", "e", "n", "t", "a", "t",
      "i", "o", "n">>

\* "application/vnd.ms-excel"
MsExcel ==
    <<"a", "p", "p", "l", "i", "c", "a", "t", "i", "o", "n", "/", "v", "n",
      "d", ".", "m", "s", "-", "e", "x", "c", "e", "l">>

\* "application/vnd.openxmlformats-officedocument.spreadsheetml.sheet"
SpreadsheetmlSheet ==
    <<"a", "p", "p", "l", "i", "c", "a", "t", "i", "o", "n", "/", "v", "n",
      "d", ".", "o", "p", "e", "n", "x", "m", "l", "f", "o", "r", "m", "a",
      "t", "s", "-", "o", "f", "f", "i", "c", "e", "d", "o", "c", "u", "m",
      "e", "n", "t", ".", "s", "p", "r", "e", "a", "d", "s", "h", "e", "e",
      "t", "m", "l", ".", "s", "h", "e", "e", "t">>

\* "image/svg+xml"
ImageSvg ==
    <<"i", "m", "a", "g", "e", "/", "s", "v", "g", "+", "x", "m", "l">>

\* "text/plain"
TextPlain ==
    <<"t", "e", "x", "t", "/", "p", "l", "a", "i", "n">>

\* getType(uri) == null
NoMime == <<>>

\* the MIME types the content resolver reports for the URIs that are shared:
\* two pictures of one type, one file of every other type of supportedMimes,
\* a picture of a type outside it, a text file, and a file of no known type
MimeOf ==
    <<ImagePng, ImagePng, ImageJpeg, ImageJpg, ImageWebp, ImageGif, ImageBmp,
      ApplicationPdf, ApplicationMsword, WordprocessingmlDocument, MsPowerpoint,
      PresentationmlPresentation, MsExcel, SpreadsheetmlSheet, ImageSvg, TextPlain,
      NoMime>>

Uris == 1..Len(MimeOf)

\* getContentResolver().getType(imageUri)
getType(uri) == MimeOf[uri]

\* imageUri.toString(), as the member of processedIntentUris it makes
uriString(uri) == <<"uri", ToDecimal(uri)>>

\* intentKey: action + "|" + data + "|" + type, null written as ""
intentKey(intent) ==
    <<intent.action,
      IF intent.data = NoUri THEN <<>> ELSE uriString(intent.data),
      intent.type>>

\* the name of a MIME type as an intent carries it in getType()
typeName(uri) ==
    CASE getType(uri) = NoMime -> "*/*"
      [] getType(uri) = ImagePng -> "image/png"
      [] HasAt(getType(uri), <<"i", "m", "a", "g", "e", "/">>, 1) -> "image/*"
      [] getType(uri) = ApplicationPdf -> "application/pdf"
      [] getType(uri) = TextPlain -> "text/plain"
      [] OTHER -> "application/*"

\* the intents that reach the activity: the launcher's, one file sent or
\* opened, several files sent, and a sent intent whose extra was consumed
Send(uri) ==
    [action |-> "android.intent.action.SEND", type |-> typeName(uri), data |-> NoUri,
     hasStream |-> TRUE, stream |-> <<uri>>]

SendMultiple(uris) ==
    [action |-> "android.intent.action.SEND_MULTIPLE", type |-> "*/*", data |-> NoUri,
     hasStream |-> TRUE, stream |-> uris]

View(uri) ==
    [action |-> "android.intent.action.VIEW", type |-> typeName(uri), data |-> uri,
     hasStream |-> FALSE, stream |-> <<>>]

Main ==
    [action |-> "android.intent.action.MAIN", type |-> "", data |-> NoUri,
     hasStream |-> FALSE, stream |-> <<>>]

Consumed(intent) == [intent EXCEPT !.hasStream = FALSE, !.stream = <<>>, !.data = NoUri]

Intents ==
    {NullIntent, Main}
    \cup {Send(uri) : uri \in Uris}
    \cup {View(uri) : uri \in {1, 2, 10, 16}}
    \cup {Consumed(Send(1)), Consumed(View(1))}
    \cup {SendMultiple(uris) : uris \in {<<1, 8>>, <<16, 1>>, <<15, 12>>,
                                         <<17, 16>>}}

\* supportedMimes
supportedMimes ==
    {ImagePng, ImageJpeg, ImageJpg, ImageWebp, ImageGif, ImageBmp, ApplicationPdf,
     ApplicationMsword, WordprocessingmlDocument, MsPowerpoint,
     PresentationmlPresentation, MsExcel, SpreadsheetmlSheet}

\* isSupported with every file let through
isSupportedAny(mime) == TRUE

\* isSupported: mime != null && (mime.startsWith("image/") ||
\* supportedMimes.contains(mime))
isSupported(mime) ==
    /\ mime # NoMime
    /\ \/ HasAt(mime, <<"i", "m", "a", "g", "e", "/">>, 1)
       \/ mime \in supportedMimes

DotPng == <<".", "p", "n", "g">>
DotJpg == <<".", "j", "p", "g">>
DotJpeg == <<".", "j", "p", "e", "g">>
DotWebp == <<".", "w", "e", "b", "p">>
DotGif == <<".", "g", "i", "f">>
DotBmp == <<".", "b", "m", "p">>
DotDocx == <<".", "d", "o", "c", "x">>
DotDoc == <<".", "d", "o", "c">>
DotPptx == <<".", "p", "p", "t", "x">>
DotPpt == <<".", "p", "p", "t">>
DotXlsx == <<".", "x", "l", "s", "x">>
DotXls == <<".", "x", "l", "s">>
DotPdf == <<".", "p", "d", "f">>
DotBin == <<".", "b", "i", "n">>

\* the chain of mime.contains(...) tests that converts the MIME type to the
\* extension of the file, ".bin" when none of them holds
extensionOfMime(mime) ==
    IF Includes(mime, <<"i", "m", "a", "g", "e", "/", "p", "n", "g">>)
    THEN DotPng
    ELSE IF \/ Includes(mime, <<"i", "m", "a", "g", "e", "/", "j", "p", "e", "g">>)
            \/ Includes(mime, <<"i", "m", "a", "g", "e", "/", "j", "p", "g">>)
    THEN DotJpg
    ELSE IF Includes(mime, <<"i", "m", "a", "g", "e", "/", "w", "e", "b", "p">>)
    THEN DotWebp
    ELSE IF Includes(mime, <<"i", "m", "a", "g", "e", "/", "g", "i", "f">>)
    THEN DotGif
    ELSE IF Includes(mime, <<"i", "m", "a", "g", "e", "/", "b", "m", "p">>)
    THEN DotBmp
    ELSE IF \/ Includes(mime, <<"w", "o", "r", "d", "p", "r", "o", "c", "e", "s", "s", "i", "n", "g", "m", "l">>)
            \/ Includes(mime, <<"d", "o", "c", "x">>)
    THEN DotDocx
    ELSE IF \/ Includes(mime, <<"m", "s", "w", "o", "r", "d">>)
            \/ Includes(mime, <<"d", "o", "c">>)
    THEN DotDoc
    ELSE IF \/ Includes(mime, <<"p", "r", "e", "s", "e", "n", "t", "a", "t", "i", "o", "n", "m", "l">>)
            \/ Includes(mime, <<"p", "p", "t", "x">>)
    THEN DotPptx
    ELSE IF \/ Includes(mime, <<"m", "s", "-", "p", "o", "w", "e", "r", "p", "o", "i", "n", "t">>)
            \/ Includes(mime, <<"p", "p", "t">>)
    THEN DotPpt
    ELSE IF \/ Includes(mime, <<"s", "p", "r", "e", "a", "d", "s", "h", "e", "e", "t", "m", "l">>)
            \/ Includes(mime, <<"x", "l", "s", "x">>)
    THEN DotXlsx
    ELSE IF \/ Includes(mime, <<"m", "s", "-", "e", "x", "c", "e", "l">>)
            \/ Includes(mime, <<"x", "l", "s">>)
    THEN DotXls
    ELSE IF Includes(mime, <<"p", "d", "f">>)
    THEN DotPdf
    ELSE DotBin

\* supportedExtensions and documentExtensions of getSharedImage
supportedExtensions ==
    {DotJpg, DotJpeg, DotPng, DotWebp, DotGif, DotBmp,
     DotPdf, DotDocx, DotDoc, DotPptx, DotPpt, DotXlsx, DotXls}

documentExtensions == {DotPdf, DotDocx, DotDoc, DotPptx, DotPpt, DotXlsx, DotXls}

\* fileName: "shared_file_" + System.currentTimeMillis() + "_" + (int)
\* (Math.random() * 1000) + ext, the number standing for the time and the
\* random part, which set the files of one run apart
sharedFileName(number, ext) ==
    <<"s", "h", "a", "r", "e", "d", "_", "f", "i", "l", "e", "_">>
    \o ToDecimal(number) \o ext

RECURSIVE lastIndexOf(_, _)
\* fileName.lastIndexOf('.'), counted from 0; -1 when there is none
lastIndexOf(fileName, ch) ==
    IF fileName = <<>> THEN -1
    ELSE IF fileName[Len(fileName)] = ch THEN Len(fileName) - 1
    ELSE lastIndexOf(SubSeq(fileName, 1, Len(fileName) - 1), ch)

\* extension: fileName.substring(dotIndex) when dotIndex > 0, "" otherwise
extensionOfName(fileName) ==
    IF lastIndexOf(fileName, ".") > 0
    THEN SubSeq(fileName, lastIndexOf(fileName, ".") + 1, Len(fileName))
    ELSE <<>>

\* the URIs handleIntent passes on: the stream of a typed SEND or
\* SEND_MULTIPLE, the data of a VIEW, and whether the branch of the action
\* was entered (the intent is then marked as processed)
dispatchedUris(intent) ==
    CASE intent.action = "android.intent.action.SEND" /\ intent.type # "" ->
             IF intent.hasStream /\ intent.stream # <<>>
             THEN [entered |-> TRUE, uris |-> <<intent.stream[1]>>]
             ELSE [entered |-> FALSE, uris |-> <<>>]
      [] intent.action = "android.intent.action.SEND_MULTIPLE" /\ intent.type # "" ->
             IF intent.hasStream
             THEN [entered |-> TRUE, uris |-> intent.stream]
             ELSE [entered |-> FALSE, uris |-> <<>>]
      [] intent.action = "android.intent.action.VIEW" ->
             IF intent.data # NoUri
             THEN [entered |-> TRUE, uris |-> <<intent.data>>]
             ELSE [entered |-> FALSE, uris |-> <<>>]
      [] OTHER -> [entered |-> FALSE, uris |-> <<>>]

\* onCreate and onNewIntent: handleIntent up to the branch on the action; a
\* null intent and an intent whose key is in processedIntentUris return
HandleIntent(intent) ==
    /\ handling.pc = "idle"
    /\ delivered < MaxIntents
    /\ delivered' = delivered + 1
    /\ handling' =
           IF /\ intent # NullIntent
              /\ intentKey(intent) \notin processedIntentUris
              /\ dispatchedUris(intent).entered
           THEN [pc |-> "busy", intent |-> intent,
                 remaining |-> dispatchedUris(intent).uris]
           ELSE [pc |-> "idle", intent |-> intent, remaining |-> <<>>]
    /\ UNCHANGED <<processedIntentUris, pendingSharedImagePaths, skippedSharedCount,
                 cacheFiles, passedUris, opened, mimeSkips, sharedResults,
                 converterVars, renderVars, lokVars, exportVars, shaperVars, keysVars>>

\* processedIntentUris.contains(uriString) with no URI ever found there
neverProcessed(uri) == FALSE

\* processedIntentUris.contains(uriString)
alreadyProcessed(uri) == uriString(uri) \in processedIntentUris

\* the file written for the URI, its name made of the files written so far
nextFile(uri) == sharedFileName(Len(opened) + 1, extensionOfMime(getType(uri)))

\* processSharedUri(uri) for the next URI of the intent: a URI seen before
\* and a file of an unsupported type return; otherwise the stream is opened
\* and copied to a file of the cache, and the path of the file is added to
\* pendingSharedImagePaths.  An exception on opening ("openFailed") or while
\* copying ("copyFailed") is caught and ends the call.
ProcessSharedUri(outcome) ==
    /\ handling.pc = "busy"
    /\ handling.remaining # <<>>
    /\ handling' = [handling EXCEPT !.remaining = Tail(@)]
    /\ passedUris' = Append(passedUris, Head(handling.remaining))
    /\ IF alreadyProcessed(Head(handling.remaining))
       THEN UNCHANGED <<processedIntentUris, pendingSharedImagePaths, cacheFiles,
                        opened, mimeSkips>>
       ELSE /\ processedIntentUris' =
                   processedIntentUris \cup {uriString(Head(handling.remaining))}
            /\ IF ~isSupported(getType(Head(handling.remaining)))
               THEN /\ mimeSkips' = mimeSkips + 1
                    /\ UNCHANGED <<pendingSharedImagePaths, cacheFiles, opened>>
               ELSE /\ opened' = Append(opened,
                                        [uri |-> Head(handling.remaining),
                                         mime |-> getType(Head(handling.remaining)),
                                         path |-> nextFile(Head(handling.remaining)),
                                         outcome |-> outcome])
                    /\ cacheFiles' =
                           IF outcome = "openFailed" THEN cacheFiles
                           ELSE cacheFiles \cup {nextFile(Head(handling.remaining))}
                    /\ pendingSharedImagePaths' =
                           IF outcome = "copied"
                           THEN Append(pendingSharedImagePaths,
                                       nextFile(Head(handling.remaining)))
                           ELSE pendingSharedImagePaths
                    /\ UNCHANGED mimeSkips
    /\ UNCHANGED <<skippedSharedCount, delivered, sharedResults,
                 converterVars, renderVars, lokVars, exportVars, shaperVars, keysVars>>

\* handleIntent after the URIs: the extra or the data consumed and the key of
\* the intent added to processedIntentUris
FinishIntent ==
    /\ handling.pc = "busy"
    /\ handling.remaining = <<>>
    /\ processedIntentUris' = processedIntentUris \cup {intentKey(handling.intent)}
    /\ handling' = [handling EXCEPT !.pc = "idle",
                                    !.intent = Consumed(handling.intent)]
    /\ UNCHANGED <<pendingSharedImagePaths, skippedSharedCount, cacheFiles, delivered,
                 passedUris, opened, mimeSkips, sharedResults,
                 converterVars, renderVars, lokVars, exportVars, shaperVars, keysVars>>

\* the local variables of getSharedImage before its loop
EmptyDrain == [files |-> <<>>, skippedCount |-> 0, deleted |-> {}, threw |-> FALSE]

RECURSIVE drain(_, _, _, _)
\* the loop of getSharedImage over the paths from the i-th on: a file that is
\* not there is passed over, a file of an unsupported extension deleted and
\* counted, a document handed back by its path, a picture read, handed back
\* and deleted; readFileToBytes throws at the failAt-th path
drain(paths, i, failAt, acc) ==
    IF i > Len(paths) \/ acc.threw THEN acc
    ELSE IF paths[i] \notin cacheFiles \ acc.deleted
    THEN drain(paths, i + 1, failAt, acc)
    ELSE IF extensionOfName(paths[i]) \notin supportedExtensions
    THEN drain(paths, i + 1, failAt,
               [acc EXCEPT !.deleted = @ \cup {paths[i]}, !.skippedCount = @ + 1])
    ELSE IF extensionOfName(paths[i]) \in documentExtensions
    THEN drain(paths, i + 1, failAt,
               [acc EXCEPT !.files = Append(@, [path |-> paths[i], isDocument |-> TRUE])])
    ELSE IF i = failAt
    THEN [acc EXCEPT !.threw = TRUE]
    ELSE drain(paths, i + 1, failAt,
               [acc EXCEPT !.files = Append(@, [path |-> paths[i], isDocument |-> FALSE]),
                           !.deleted = @ \cup {paths[i]}])

\* pendingSharedImagePaths.clear() left out
keepPending(paths) == paths

\* pendingSharedImagePaths.clear()
clearPending(paths) == <<>>

\* what the call resolves with: the files and skippedCount when there is
\* either, { hasImage: false } otherwise; `found`, `threw`, `skippedInside`
\* and `mimeSkipped` record how the call went
sharedResult(found, drained, mainSkipped) ==
    IF /\ found /\ ~drained.threw
       /\ (drained.files # <<>> \/ drained.skippedCount + skippedSharedCount > 0)
    THEN [hasImage |-> drained.files # <<>>, files |-> drained.files,
          reported |-> TRUE,
          skippedCount |-> drained.skippedCount + skippedSharedCount,
          found |-> found, threw |-> FALSE,
          skippedInside |-> drained.skippedCount, mimeSkipped |-> mainSkipped]
    ELSE [hasImage |-> FALSE, files |-> <<>>, reported |-> FALSE, skippedCount |-> 0,
          found |-> found, threw |-> drained.threw,
          skippedInside |-> drained.skippedCount, mimeSkipped |-> mainSkipped]

\* getSharedImage(call), all of it inside synchronized
\* (pendingSharedImagePaths): the list is read, cleared and answered in one
\* step of the plugin thread
GetSharedImage(failAt) ==
    /\ Len(sharedResults) < MaxSharedCalls
    /\ failAt = 0 \/ pendingSharedImagePaths # <<>>
    /\ IF pendingSharedImagePaths = <<>>
       THEN /\ sharedResults' =
                   Append(sharedResults, sharedResult(FALSE, EmptyDrain, mimeSkips))
            /\ UNCHANGED <<pendingSharedImagePaths, skippedSharedCount, cacheFiles,
                           mimeSkips>>
       ELSE /\ sharedResults' =
                   Append(sharedResults,
                          sharedResult(TRUE,
                                       drain(pendingSharedImagePaths, 1, failAt, EmptyDrain),
                                       mimeSkips))
            /\ cacheFiles' =
                   cacheFiles \ drain(pendingSharedImagePaths, 1, failAt, EmptyDrain).deleted
            /\ IF drain(pendingSharedImagePaths, 1, failAt, EmptyDrain).threw
               THEN UNCHANGED <<pendingSharedImagePaths, skippedSharedCount, mimeSkips>>
               ELSE /\ pendingSharedImagePaths' = clearPending(pendingSharedImagePaths)
                    /\ skippedSharedCount' = 0
                    /\ mimeSkips' =
                           IF sharedResult(TRUE,
                                           drain(pendingSharedImagePaths, 1, failAt,
                                                 EmptyDrain),
                                           mimeSkips).reported
                           THEN 0 ELSE mimeSkips
    /\ UNCHANGED <<processedIntentUris, handling, delivered, passedUris, opened,
                 converterVars, renderVars, lokVars, exportVars, shaperVars, keysVars>>

ShareInit ==
    /\ ExportOff
    /\ ShaperOff
    /\ KeysOff
    /\ ServiceOff

ShareNext ==
    \/ \E intent \in Intents : HandleIntent(intent)
    \/ \E outcome \in {"copied", "openFailed", "copyFailed"} : ProcessSharedUri(outcome)
    \/ FinishIntent
    \/ \E failAt \in 0..MaxPending : GetSharedImage(failAt)

SpecShare == ShareInit /\ [][ShareNext]_vars

-----------------------------------------------------------------------------
(* LOKConverter: convertToImageViaPdf, convertToImagesViaPdf and             *)
(* convertToImagesViaPdfWithProgress.  A run goes from the call to the page  *)
(* count of the PDF in one step, then page by page, then to its return.      *)

\* the height of an A4 page as PdfRenderer.Page reports it, in points of
\* 1/72 inch: the page the estimate of 1750 pixels at 150 dpi is made for
A4HeightPoints == 842

\* the bitmap height the DPI steps are meant to stay under
MaxBitmapHeight == 30000

\* the methods that check the page count against calculateMaxPages()
LimitedMethods == {"convertToImageViaPdf", "convertToImagesViaPdf"}

PdfMethods == LimitedMethods \cup {"convertToImagesViaPdfWithProgress"}

\* the page counts of the PDFs the converter is run on
PdfPageCounts == 0..MaxPdfPages \cup {50, 51, 150, 151}

\* availableMem in megabytes; NoHeapLimit stands for a runtime whose
\* maxMemory() is Long.MAX_VALUE
NoHeapLimit == -1
AvailableMemory == {0, 80, 88, 144, 1200, 4096, NoHeapLimit}

Min(a, b) == IF a <= b THEN a ELSE b

\* (int) safeMemory, with safeMemory = (availableMem / 2) / (4 * 1024 * 1024):
\* an eighth of the megabytes; without a heap limit the quotient is about
\* 2^40 and the cast keeps its low 32 bits, a negative number
safeMemory(availableMB) ==
    IF availableMB = NoHeapLimit THEN -128 ELSE (availableMB \div 2) \div 4

\* the page limit without Math.max and Math.min
calculateMaxPagesUnclamped(availableMB) == safeMemory(availableMB)

\* calculateMaxPages(): Math.max(10, Math.min(150, (int) safeMemory))
calculateMaxPages(availableMB) == Max(10, Min(150, safeMemory(availableMB)))

\* dpi of convertToImageViaPdf: 150, lowered for combined pictures of more
\* than 20 pages
dpiOf(combinePages, pageCount) ==
    IF combinePages /\ pageCount > 20
    THEN IF pageCount > 50 THEN 72
         ELSE IF pageCount > 30 THEN 100
         ELSE 120
    ELSE 150

\* (int) (page.getHeight() * dpi / 72.0)
pixelHeight(points, dpi) == (points * dpi) \div 72

\* needsCleanup: false for an input that is a PDF already, true for the
\* others
needsCleanup(isPdf) == ~isPdf

\* the file tempPdf names: new File(inputPath) for an input that is a PDF,
\* the file the input is converted to for the others
tempPdfFile(isPdf) == IF isPdf THEN "input" ELSE "tempPdf"

\* if (needsCleanup && tempPdf != null) tempPdf.delete(): the file tempPdf
\* names is deleted when there is one
deleteTempPdf(j) ==
    IF ~needsCleanup(j.isPdf)
    THEN j
    ELSE IF tempPdfFile(j.isPdf) = "input"
    THEN [j EXCEPT !.input = "deleted"]
    ELSE [j EXCEPT !.tempPdf = IF @ = "exists" THEN "deleted" ELSE @]

\* the run ends, by a path through the method that has the cleanup of the
\* temporary PDF on it or by one that has not
EndJob(outcome, error, cleanup) ==
    job' = [(IF cleanup THEN deleteTempPdf(job) ELSE job)
            EXCEPT !.pc = "done", !.outcome = outcome, !.error = error]

\* one of the three methods is called on a converter that is ready, up to
\* the first pass of the loop over the pages: the input is a PDF or is
\* converted to a temporary PDF (`converted`: "yes", "no" when no file is
\* written, "empty" when a file is left behind and convertToPdf returns
\* false), the PDF is opened (or the opening throws), the page count is read
\* and checked.  The returns of a failed conversion to PDF and of a PDF
\* without pages leave the method inside the try block, past no cleanup; the
\* exceptions go through the catch block, which has it
StartConversion(method, isPdf, combinePages, pageCount, availableMB, converted, canOpen) ==
    /\ job.pc = "idle"
    /\ combinePages => method = "convertToImageViaPdf"
    /\ isPdf => converted = "yes"
    /\ LET started == [job EXCEPT
                          !.method = method, !.isPdf = isPdf,
                          !.combinePages = combinePages,
                          !.tempPdf = IF isPdf \/ converted = "no"
                                      THEN "none" ELSE "exists"]
           failed == IF method = "convertToImageViaPdf" THEN "false" ELSE "null"
       IN  IF converted # "yes"
           THEN job' = [started EXCEPT !.pc = "done", !.outcome = failed]
           ELSE IF ~canOpen
           THEN job' = [deleteTempPdf(started) EXCEPT
                           !.pc = "done", !.outcome = "thrown",
                           !.error = "open failed"]
           ELSE IF method \in LimitedMethods /\ pageCount > calculateMaxPages(availableMB)
           THEN job' = [deleteTempPdf(started) EXCEPT
                           !.pc = "done", !.outcome = "thrown",
                           !.error = "too many pages",
                           !.pageCount = pageCount,
                           !.maxPages = calculateMaxPages(availableMB)]
           ELSE job' = [started EXCEPT
                           !.pc = IF pageCount = 0 THEN "done" ELSE "rendering",
                           !.outcome = IF pageCount = 0 THEN failed ELSE "",
                           !.pageCount = pageCount,
                           !.maxPages = IF method \in LimitedMethods
                                        THEN calculateMaxPages(availableMB) ELSE 0,
                           !.dpi = dpiOf(combinePages, pageCount)]
    /\ UNCHANGED <<shareVars, renderVars, lokVars, exportVars, shaperVars, keysVars>>

\* one pass of the loop over the pages: the page rendered at the DPI (and,
\* in convertToImageViaPdf, its height added to totalHeight), or an
\* exception that the catch block answers by deleting the temporary PDF
RenderPdfPage(rendered) ==
    /\ job.pc = "rendering"
    /\ job.rendered < job.pageCount
    /\ IF rendered
       THEN job' = [job EXCEPT
                       !.rendered = @ + 1,
                       !.totalHeight =
                           IF job.method = "convertToImageViaPdf"
                           THEN @ + pixelHeight(A4HeightPoints, job.dpi)
                           ELSE @]
       ELSE EndJob("thrown", "render failed", TRUE)
    /\ UNCHANGED <<shareVars, renderVars, lokVars, exportVars, shaperVars, keysVars>>

\* after the loop: the pages combined and the picture saved, or the paths of
\* the pictures handed back; `saved` is FALSE when writing the picture throws
\* (convertToImageViaPdf) or no picture was kept (the other two methods)
FinishConversion(saved) ==
    /\ job.pc = "rendering"
    /\ job.rendered = job.pageCount
    /\ IF job.method = "convertToImageViaPdf"
       THEN IF saved
            THEN EndJob("true", "", TRUE)
            ELSE EndJob("thrown", "save failed", TRUE)
       ELSE IF saved
            THEN EndJob("paths", "", TRUE)
            ELSE EndJob("null", "", TRUE)
    /\ UNCHANGED <<shareVars, renderVars, lokVars, exportVars, shaperVars, keysVars>>

ConverterInit ==
    /\ ExportOff
    /\ ShaperOff
    /\ KeysOff
    /\ ServiceOff

ConverterNext ==
    \/ /\ job.pc = "idle"
       /\ \E method \in PdfMethods, isPdf \in BOOLEAN, combinePages \in BOOLEAN,
             pageCount \in PdfPageCounts, availableMB \in AvailableMemory,
             converted \in {"yes", "no", "empty"}, canOpen \in BOOLEAN :
              StartConversion(method, isPdf, combinePages, pageCount, availableMB,
                              converted, canOpen)
    \/ \E rendered \in BOOLEAN : RenderPdfPage(rendered)
    \/ \E saved \in BOOLEAN : FinishConversion(saved)

SpecConverter == ConverterInit /\ [][ConverterNext]_vars

-----------------------------------------------------------------------------
(* Properties of the shaper *)

RECURSIVE StripMarks(_)
StripMarks(s) ==
    IF s = <<>> THEN <<>>
    ELSE IF Head(s) \in DirectionalMarks
    THEN StripMarks(Tail(s))
    ELSE <<Head(s)>> \o StripMarks(Tail(s))

PureScript(s) == \A i \in 1..Len(s) : s[i] \in ArabicLetters \cup {" "}

MixedSingleLine(s) ==
    \A i \in 1..Len(s) :
        s[i] \in ArabicLetters \cup LatinLetters \cup Digits \cup {" ", "/", "."}

\* C8: shaping a string that holds only right-to-left letters and spaces
\* returns the string unchanged: no directional mark is added.
C8_PureScriptUnchanged ==
    (shaperPc = "shaped" /\ PureScript(shaperText)) => shaperResult = shaperText

C8_Witness ==
    /\ shaperPc = "shaped"
    /\ PureScript(shaperText)
    /\ \E i \in 1..Len(shaperText) : shaperText[i] \in ArabicLetters
    /\ \E i \in 1..Len(shaperText) : shaperText[i] = " "

\* C9: for a single-line string of right-to-left letters, spaces, Latin
\* letters, digits, slashes and periods, removing the directional marks from
\* the shaped string gives back the input, character by character.
C9_RoundTrip ==
    (shaperPc = "shaped" /\ MixedSingleLine(shaperText))
        => StripMarks(shaperResult) = shaperText

C9_Witness ==
    /\ shaperPc = "shaped"
    /\ shaperText = MixedExample
    /\ shaperResult # shaperText
    /\ \E i \in 1..Len(shaperResult) : shaperResult[i] = LRE

-----------------------------------------------------------------------------
(* Properties of the exported documents *)

\* the calls that have generated a package
Exported == {c \in 1..MaxExports : calls[c].output # <<>>}

\* the main document of the template, and of the package call c generated
HasDocument(pkg) == DocumentXml \in DOMAIN pkg.xml

\* the main document part is there and the export reads it
ReadsDocument(pkg) == hasText(pkg, DocumentXml)
TemplateDocument == templateBuffer.pkg.xml[DocumentXml]
OutputDocument(c) == calls[c].output[1].xml[DocumentXml]

KindPositions(x, kind) == {i \in 1..Len(x) : x[i].k = kind}
KindCount(x, kind) == Cardinality(KindPositions(x, kind))

\* the n-th block of x that `open` opens, up to the first `close` after it
NthBlock(x, open, close, n) ==
    LET opens == KindPositions(x, open)
        i == CHOOSE o \in opens : Cardinality({q \in opens : q < o}) = n - 1
        closes == {j \in KindPositions(x, close) : j > i}
    IN  SubSeq(x, i, CHOOSE j \in closes : \A q \in closes : j <= q)

NthTable(x, n) == NthBlock(x, "w:tbl", "/w:tbl", n)

\* a table block carries the notes-column fingerprint: a run of it holds the label
HoldsNotesLabel(table) ==
    \E i \in 1..Len(table) : table[i].k = "w:t" /\ Includes(table[i].t, NotesLabel)

NotesTables(x) == {n \in 1..KindCount(x, "w:tbl") : HoldsNotesLabel(NthTable(x, n))}

\* the table of call c's document that stands where the template's notes table stood
SynthesizedTable(c) ==
    NthTable(OutputDocument(c), CHOOSE n \in NotesTables(TemplateDocument) : TRUE)

\* call c wrote a notes table from the grid of the form
TableSynthesized(c) ==
    /\ c \in Exported
    /\ formData.useTable
    /\ HasDocument(templateBuffer.pkg)
    /\ NotesTables(TemplateDocument) # {}

\* C1: with the table switched on, the table written in place of the
\* template's notes table has as many row blocks as the grid has rows, every
\* row block has as many cell blocks as the grid has columns, and the column
\* grid declares that many columns.
C1_TableShape ==
    \A c \in 1..MaxExports :
        TableSynthesized(c) =>
            /\ KindCount(SynthesizedTable(c), "w:tr") = Len(formData.tableData)
            /\ \A r \in 1..Len(formData.tableData) :
                   KindCount(NthBlock(SynthesizedTable(c), "w:tr", "/w:tr", r), "w:tc")
                       = Len(formData.tableData[1])
            /\ KindCount(SynthesizedTable(c), "w:gridCol") = Len(formData.tableData[1])

\* a saved document whose table of two rows and two columns replaced the
\* template's table of three columns
C1_Witness ==
    \E c \in 1..MaxExports :
        /\ TableSynthesized(c)
        /\ calls[c].pc = "done"
        /\ Len(formData.tableData) = 2
        /\ Len(formData.tableData[1]) = 2
        /\ KindCount(NthTable(TemplateDocument,
                              CHOOSE n \in NotesTables(TemplateDocument) : TRUE),
                     "w:gridCol") = 3
        /\ KindCount(SynthesizedTable(c), "w:tc") = 4

\* the widths the column grid of a table declares, column by column
GridWidths(table) ==
    LET cols == KindPositions(table, "w:gridCol")
    IN  [n \in 1..Cardinality(cols) |->
            table[CHOOSE i \in cols : Cardinality({q \in cols : q < i}) = n - 1].w]

\* the columns of the grid whose header holds the notes label
NotesColumns(data) == {c \in 1..Len(data[1]) : Includes(data[1][c], NotesLabel)}

\* C4: in a table written from a grid with a notes column, the width declared
\* for the notes column is at least the width declared for every other column.
C4_NotesWidthDominates ==
    \A c \in 1..MaxExports :
        (TableSynthesized(c) /\ NotesColumns(formData.tableData) # {}) =>
            \A n \in NotesColumns(formData.tableData) :
                \A o \in 1..Len(formData.tableData[1]) :
                    GridWidths(SynthesizedTable(c))[n] >= GridWidths(SynthesizedTable(c))[o]

ImagesAppended(c) ==
    /\ c \in Exported
    /\ calls[c].format = "docx"
    /\ addedImages # <<>>
    /\ ReadsDocument(templateBuffer.pkg)
    /\ templateBuffer.pkg.hasRels

HighestOf(numbers) ==
    IF numbers = {} THEN 0 ELSE CHOOSE n \in numbers : \A o \in numbers : n >= o

\* the number of a relationship id of the form rId<digits>, 0 for any other id
RelNumber(id) ==
    IF /\ Len(id) > Len(RIdPrefix)
       /\ SubSeq(id, 1, Len(RIdPrefix)) = RIdPrefix
       /\ \A j \in (Len(RIdPrefix) + 1)..Len(id) : id[j] \in Digits
    THEN ParseDecimal(SubSeq(id, Len(RIdPrefix) + 1, Len(id)))
    ELSE 0

\* the highest id of the template's relationship table
HighestRelId == HighestOf({RelNumber(templateBuffer.pkg.rels[j].Id) :
                              j \in 1..Len(templateBuffer.pkg.rels)})

\* C2: the relationship table of a package with K added images is the
\* template's table followed by K entries whose ids are rId(N+1) .. rId(N+K)
\* in that order, N the highest id of the template's table, and none of them
\* is an id of the template's table.
C2_FreshRelationshipIds ==
    \A c \in 1..MaxExports :
        ImagesAppended(c) =>
            LET old == templateBuffer.pkg.rels
                new == calls[c].output[1].rels
            IN  /\ Len(new) = Len(old) + Len(addedImages)
                /\ SubSeq(new, 1, Len(old)) = old
                /\ \A i \in 1..Len(addedImages) :
                       /\ new[Len(old) + i].Id = RIdPrefix \o ToDecimal(HighestRelId + i)
                       /\ \A j \in 1..Len(old) : old[j].Id # new[Len(old) + i].Id

\* two images saved over a table whose highest id, rId12, is not its last
C2_Witness ==
    \E c \in 1..MaxExports :
        /\ ImagesAppended(c)
        /\ calls[c].pc = "done"
        /\ Len(addedImages) = 2
        /\ HighestRelId = 12
        /\ RelNumber(templateBuffer.pkg.rels[Len(templateBuffer.pkg.rels)].Id) = 9
        /\ calls[c].output[1].rels[Len(calls[c].output[1].rels)].Id
               = <<"r", "I", "d", "1", "4">>

\* the number a media file name carries before its extension, 0 when none
NameSuffix(name) ==
    LET dot == CHOOSE i \in 1..Len(name) :
                   name[i] = "." /\ \A j \in (i + 1)..Len(name) : name[j] # "."
        start == CHOOSE i \in 1..dot :
                     /\ \A j \in i..(dot - 1) : name[j] \in Digits
                     /\ i = 1 \/ name[i - 1] \notin Digits
    IN  IF start = dot THEN 0 ELSE ParseDecimal(SubSeq(name, start, dot - 1))

TemplateMedia == DOMAIN templateBuffer.pkg.media

HighestMediaSuffix == HighestOf({NameSuffix(n) : n \in TemplateMedia})

AddedMedia(c) == (DOMAIN calls[c].output[1].media) \ TemplateMedia

\* C3: a package with K added images holds every media part of the template
\* with the bytes it had, and K new media parts; the i-th image is in the new
\* part whose number is M + i, M the highest number among the template's media
\* names, so every new number is above every number that was there and above
\* the numbers of the images before it; and two exports of the same template
\* write the same names.
C3_FreshMediaNames ==
    /\ \A c \in 1..MaxExports :
           ImagesAppended(c) =>
               /\ \A n \in TemplateMedia :
                      /\ n \in DOMAIN calls[c].output[1].media
                      /\ calls[c].output[1].media[n] = templateBuffer.pkg.media[n]
               /\ Cardinality(AddedMedia(c)) = Len(addedImages)
               /\ \A i \in 1..Len(addedImages) :
                      \E n \in AddedMedia(c) :
                          /\ NameSuffix(n) = HighestMediaSuffix + i
                          /\ calls[c].output[1].media[n] = bytesOf(addedImages[i])
    /\ \A c, d \in 1..MaxExports :
           (ImagesAppended(c) /\ ImagesAppended(d)) =>
               /\ AddedMedia(c) = AddedMedia(d)
               /\ calls[c].output[1].rels = calls[d].output[1].rels

\* two exports saved, each with two images, over a template whose media run
\* up to image10
C3_Witness ==
    /\ \A c \in 1..MaxExports : ImagesAppended(c) /\ calls[c].pc = "done"
    /\ Len(addedImages) = 2
    /\ HighestMediaSuffix = 10
    /\ Cardinality(TemplateMedia) = 3
    /\ \E n \in AddedMedia(1) : NameSuffix(n) = 12

\* the text of a part as it reads: the runs in order, a line break for <w:br/>
DocText(x) ==
    Flatten([i \in 1..Len(x) |->
                IF x[i].k = "w:t" THEN x[i].t
                ELSE IF x[i].k = "w:br" THEN <<"\n">>
                ELSE <<>>])

\* the value of a field as the document is to show it: shaped as a whole,
\* every line shaped and escaped, the lines one under the other
ShapedValue(text) ==
    LET lines == SplitOn(shapeOnce(text), "\n")
    IN  JoinWith([i \in 1..Len(lines) |-> escapeXml(shapeOnce(lines[i]))], "\n")

FormFields == {ReplacementKeys[k].field : k \in 1..Len(ReplacementKeys)}

KeysOf(field) == {k \in 1..Len(ReplacementKeys) : ReplacementKeys[k].field = field}

BracketToken(k) == <<LeftBracket>> \o ReplacementKeys[k].key \o <<RightBracket>>

\* the template holds an anchor of the field: a bracket anchor, in one run or
\* split over runs that follow each other, or a literal anchor
Anchored(field, x) ==
    \E k \in KeysOf(field) :
        \/ Includes(DocText(x), BracketToken(k))
        \/ /\ k \in {directTextKeys[n] : n \in 1..Len(directTextKeys)}
           /\ Includes(DocText(x), ReplacementKeys[k].key)

\* C6: for every field of the form that has a value and an anchor in the
\* template's main document, the main document of the generated package holds
\* the shaped value of the field and holds no bracket anchor of the field,
\* also when the bracket, the key and the bracket stand in runs of their own.
C6_PlaceholderComplete ==
    \A c \in Exported :
        (HasDocument(templateBuffer.pkg) /\ HasDocument(calls[c].output[1])) =>
            \A field \in FormFields :
                (formData[field] # <<>> /\ Anchored(field, TemplateDocument)) =>
                    /\ Includes(DocText(OutputDocument(c)), ShapedValue(formData[field]))
                    /\ \A k \in KeysOf(field) :
                           ~Includes(DocText(OutputDocument(c)), BracketToken(k))

\* C10: when the template is no archive, or is an archive without the main
\* document part, no call starts a stage of the pipeline and no call generates
\* a package.
C10_FatalLoadErrors ==
    (~templateBuffer.valid \/ ~HasDocument(templateBuffer.pkg)) =>
        \A c \in 1..MaxExports :
            /\ calls[c].pc \notin {"images", "saving", "done"}
            /\ calls[c].output = <<>>

-----------------------------------------------------------------------------
(* Properties of the literal pass *)

\* the key that stands at position i and is the longest of those that do, or 0
LongestKeyAt(text, i, keys) ==
    LET there == {n \in 1..Len(keys) : keys[n] # <<>> /\ HasAt(text, keys[n], i)}
    IN  IF there = {} THEN 0
        ELSE CHOOSE n \in there : \A o \in there : Len(keys[n]) >= Len(keys[o])

RECURSIVE LongestFirstFrom(_, _, _)
\* the text read from the left, the longest key that stands at a position
\* replaced by its value, the reading taken up again after the key
LongestFirstFrom(text, i, keys) ==
    IF i > Len(text) THEN <<>>
    ELSE IF LongestKeyAt(text, i, keys) = 0
    THEN <<text[i]>> \o LongestFirstFrom(text, i + 1, keys)
    ELSE keyValue(LongestKeyAt(text, i, keys))
         \o LongestFirstFrom(text, i + Len(keys[LongestKeyAt(text, i, keys)]), keys)

ProperPrefix(p, q) == Len(p) < Len(q) /\ SubSeq(q, 1, Len(p)) = p

\* C7: the literal keys are matched longest first: wherever the reading of the
\* text stands on a key, the value written is that of the longest key that
\* stands there, so a key that is a prefix of another is never matched where
\* the longer one stands.
C7_LongestKeyFirst ==
    keysPc = "replaced" => keysResult = LongestFirstFrom(keysText, 1, keysList)

\* the first key is a proper prefix of the second, the text holds the second,
\* and the value of the second is written
C7_Witness ==
    /\ keysPc = "replaced"
    /\ ProperPrefix(keysList[1], keysList[2])
    /\ Includes(keysText, keysList[2])
    /\ Includes(keysResult, keyValue(2))
    /\ ~Includes(keysResult, keyValue(1))

-----------------------------------------------------------------------------
(* Properties of the stages that find no anchor, and of the parts *)

TableBlocks(x) == AllBlocks(x, "w:tbl", "/w:tbl")

\* C11: with the table switched on and no table of the template holding the
\* notes label, the table stage changes nothing: the generated document holds
\* the tables of the template as they were, and the package is generated.
C11_NoNotesTableNoChange ==
    \A c \in 1..MaxExports :
        (/\ calls[c].pc \in {"images", "saving", "done"}
         /\ formData.useTable
         /\ HasDocument(templateBuffer.pkg)
         /\ NotesTables(TemplateDocument) = {})
        => /\ c \in Exported \/ calls[c].pc = "images"
           /\ c \in Exported =>
                  TableBlocks(OutputDocument(c)) = TableBlocks(TemplateDocument)

\* a saved document that kept the one table of a template without notes table
C11_Witness ==
    \E c \in 1..MaxExports :
        /\ calls[c].pc = "done"
        /\ formData.useTable
        /\ NotesTables(TemplateDocument) = {}
        /\ Len(TableBlocks(TemplateDocument)) = 1
        /\ TableBlocks(OutputDocument(c)) = TableBlocks(TemplateDocument)

\* the parts of the template whose entries cannot be read
Unreadable == templateBuffer.pkg.broken

\* C12: a header part of the template that cannot be read stays as it was in
\* the generated package while the main document is rewritten with the values
\* of the form; a main document part that cannot be read ends the export, so
\* that no call comes to the saving step and no package is generated.
C12_PartFailures ==
    \A c \in 1..MaxExports :
        /\ (Unreadable = {Header1Xml} /\ c \in Exported) =>
               /\ calls[c].output[1].xml[Header1Xml] = templateBuffer.pkg.xml[Header1Xml]
               /\ Includes(DocText(OutputDocument(c)), ShapedValue(formData.subject_name))
        /\ (templateBuffer.valid /\ DocumentXml \in Unreadable) =>
               /\ calls[c].pc \notin {"images", "saving", "done"}
               /\ calls[c].output = <<>>

Output(c) == calls[c].output[1]

\* the parts of the template are all in the generated package
PartsKept(c) ==
    /\ DOMAIN templateBuffer.pkg.xml \subseteq DOMAIN Output(c).xml
    /\ DOMAIN templateBuffer.pkg.media \subseteq DOMAIN Output(c).media
    /\ templateBuffer.pkg.hasRels => Output(c).hasRels

\* the parts no stage names are in the generated package as they were: the
\* footer, the media that are not the two logo pictures, the two logo
\* pictures when the form holds no logo, the relationships when no image is
\* added
PartsUntouched(c) ==
    /\ Output(c).xml[Footer1Xml] = templateBuffer.pkg.xml[Footer1Xml]
    /\ \A n \in DOMAIN templateBuffer.pkg.media :
           (n \notin {Image1Png, Image2Png} \/ formData.logoBase64 = "") =>
               Output(c).media[n] = templateBuffer.pkg.media[n]
    /\ (addedImages = <<>> \/ calls[c].format # "docx") =>
           Output(c).rels = templateBuffer.pkg.rels

\* C13 as the specification states it: a generated package holds every part
\* of the template, the recipient data part included, and every part no stage
\* names as it was.
C13_EveryPartKept ==
    \A c \in Exported :
        /\ PartsKept(c)
        /\ templateBuffer.pkg.recipientData => Output(c).recipientData
        /\ PartsUntouched(c)

\* C13: a generated package holds every part of the template but the
\* recipient data part of the mail merge, which is taken out whenever the
\* settings part can be read, and every part no stage names as it was.
C13_EveryPartKeptButRecipientData ==
    \A c \in Exported :
        /\ PartsKept(c)
        /\ SettingsXml \notin Unreadable => ~Output(c).recipientData
        /\ PartsUntouched(c)

\* a saved export with a logo and values for the letterhead: the header is
\* rewritten, the logo pictures are replaced, the footer with the same
\* anchors and the third picture are as they were, the recipient data is gone
C13_Witness ==
    \E c \in Exported :
        /\ calls[c].pc = "done"
        /\ formData.logoBase64 # ""
        /\ templateBuffer.pkg.recipientData
        /\ ~Output(c).recipientData
        /\ Output(c).xml[Header1Xml] # templateBuffer.pkg.xml[Header1Xml]
        /\ Output(c).xml[Footer1Xml] = templateBuffer.pkg.xml[Footer1Xml]
        /\ Output(c).media[Image1Png] # templateBuffer.pkg.media[Image1Png]

\* the call is under way: started and not yet through the catch and finally
\* blocks
Running(c) == calls[c].pc \in {"loading", "images", "saving"}

\* C14: the calls share no state that changes: a step of one call leaves
\* alone the cancellation flag that another call, under way at that moment,
\* is still to read, so that the outcome of that call is what it is when it
\* runs alone.
C14_ExportsIsolated ==
    [][\A c, d \in 1..MaxExports :
           (/\ c # d
            /\ Running(c) /\ calls'[c] = calls[c]
            /\ calls'[d] # calls[d]) =>
               exportCancelledRef' = exportCancelledRef]_vars

-----------------------------------------------------------------------------
(* Properties of the distribution list and of the values written *)

\* the numbered paragraphs of a part, in order
NumberedParagraphs(x) ==
    SelectSeq(AllBlocks(x, "w:p", "/w:p"),
              LAMBDA para : \E n \in 1..Len(para) : hasNumPr(para[n]))

\* the template's main document holds the numbered paragraph of the list
ListAnchored == paragraphMatch(TemplateDocument).index # 0

\* the lines of the list as the document is to show them
ListLines == copyToLines(formData.copy_to)

\* C15: over a template that holds the numbered paragraph of the list, a
\* generated document holds one numbered paragraph for each line of the list,
\* in the order of the lines, each with the escaped text of its line; with no
\* line it holds no numbered paragraph and the sentinel stands nowhere.
C15_DistributionList ==
    \A c \in Exported :
        (ReadsDocument(templateBuffer.pkg) /\ ListAnchored) =>
            /\ Len(NumberedParagraphs(OutputDocument(c))) = Len(ListLines)
            /\ \A i \in 1..Len(ListLines) :
                   DocText(NumberedParagraphs(OutputDocument(c))[i])
                       = escapeXml(trim(ListLines[i]))
            /\ ListLines = <<>> =>
                   ~Includes(DocText(OutputDocument(c)), CopyToSentinel)

\* the five entities escapeXml writes
Entities == {escapeXml(<<ch>>) : ch \in {"&", "<", ">", "\"", "'"}}

\* text content in which the reserved characters stand escaped only: none of
\* < > " ' stands in it, and every & opens one of the five entities
EscapedText(text) ==
    \A i \in 1..Len(text) :
        /\ text[i] \notin {"<", ">", "\"", "'"}
        /\ text[i] = "&" => \E e \in Entities : HasAt(text, e, i)

\* every text run of the part holds escaped text
EscapedPart(x) == \A i \in 1..Len(x) : x[i].k = "w:t" => EscapedText(x[i].t)

\* C16: whatever the fields of the form hold, every text run of every part
\* the replacement loop rewrites holds the reserved characters escaped only,
\* so the part stays well-formed.
C16_ValuesEscaped ==
    \A c \in Exported :
        \A n \in 1..Len(xmlFiles) :
            hasText(templateBuffer.pkg, xmlFiles[n]) =>
                EscapedPart(Output(c).xml[xmlFiles[n]])

-----------------------------------------------------------------------------
(* Properties of the rendering service *)

\* the conversion was started and its promise is not settled
InProgress(c) ==
    /\ conversions[c].pc \in {"word", "poppler"}
    /\ conversions[c].result.state = "pending"

\* C17: a conversion that is in progress when the cancellation flag is set
\* (the cancel handler has run since the conversion was started) settles in
\* no other way than rejected with 'Export cancelled', whatever handler or
\* process event the step is.
C17_CancelRejects ==
    [][\A c \in 1..MaxConversions :
           (/\ exportCancelled /\ InProgress(c)
            /\ conversions'[c].result.state # "pending") =>
               conversions'[c].result = Rejected("Export cancelled")]_vars

\* the numbers 1..n in order
Pages(n) == [i \in 1..n |-> i]

\* C19: an image conversion that resolves with success: true hands back, with
\* combinePages, the key `buffer` alone, the pages drawn in page order, for
\* any number of pages; and without it the key `images` alone, one entry for
\* each file generated, the i-th entry with pageNum i and the picture of page i.
C19_ImageResultShape ==
    \A c \in 1..MaxConversions :
        LET conversion == conversions[c]
            N == Len(conversion.files)
        IN  (/\ conversion.handler = "image"
             /\ conversion.result.state = "resolved"
             /\ conversion.result.success) =>
                /\ N >= 1
                /\ IF conversion.combinePages
                   THEN /\ conversion.result.keys = {"success", "buffer"}
                        /\ conversion.result.buffer = Pages(N)
                   ELSE /\ conversion.result.keys = {"success", "images"}
                        /\ Len(conversion.result.images) = N
                        /\ \A i \in 1..N :
                               /\ conversion.result.images[i].pageNum = i
                               /\ conversion.result.images[i].buffer = <<i>>

\* one conversion handed back the pictures of all the pages of the longest
\* document one by one, the other one combined picture of two pages
C19_Witness ==
    \E c, d \in 1..MaxConversions :
        /\ conversions[c].result.success /\ ~conversions[c].combinePages
        /\ Len(conversions[c].result.images) = MaxPages
        /\ conversions[c].result.images[MaxPages].buffer = <<MaxPages>>
        /\ conversions[d].result.success /\ conversions[d].combinePages
        /\ conversions[d].handler = "image"
        /\ conversions[d].result.buffer = <<1, 2>>

\* the conversion goes through Word: PowerShell was spawned for it
WordBased(c) == conversions[c].timer # "none"

\* the PowerShell process of the conversion was started and has not closed
PowerShellRunning(c) ==
    /\ conversions[c].pc = "word"
    /\ conversions[c].result # Rejected("Failed to start PowerShell")

\* C21: when the timer of a Word conversion runs out while its PowerShell
\* process has not closed, the process is killed and the promise is rejected
\* with 'Word conversion timeout'; and the promise of every Word conversion
\* is settled in the end.
C21_TimeoutSettles ==
    /\ [][\A c \in 1..MaxConversions :
              (/\ PowerShellRunning(c)
               /\ conversions[c].timer = "armed"
               /\ conversions'[c].timer = "fired") =>
                  /\ conversions'[c].killed
                  /\ conversions'[c].result = Rejected("Word conversion timeout")]_vars
    /\ \A c \in 1..MaxConversions :
           WordBased(c) ~> (conversions[c].result.state # "pending")

\* the timer of a conversion to PDF and the timer of a conversion to images
\* ran out on a PowerShell process that has not closed yet
C21_Witness ==
    \E c, d \in 1..MaxConversions :
        /\ conversions[c].handler = "pdf" /\ conversions[d].handler = "image"
        /\ \A e \in {c, d} :
               /\ conversions[e].pc = "word" /\ conversions[e].killed
               /\ conversions[e].result = Rejected("Word conversion timeout")

-----------------------------------------------------------------------------
(* Properties of the LibreOfficeKit plugin *)

\* the progress events posted for call c, in the order of posting
ProgressOf(c) ==
    SelectSeq(mainLooper, LAMBDA m : m.kind = "conversionProgress" /\ m.call = c)

\* the places in the queue of the main looper of the messages of call c
PostedAt(c, kind) ==
    {i \in 1..Len(mainLooper) : mainLooper[i].kind = kind /\ mainLooper[i].call = c}

\* C18: the progress events of a call are one for each page done, with
\* current = 1, 2, ... in order and the total of the document in each; the
\* percent of each is within 0..100 and not below the one before; every one
\* of them is posted before the result of the call, and has gone to the
\* listeners when the call is resolved; and a call that resolves with
\* success: true has reported every page, the last event with percent 100.
C18_ProgressReports ==
    \A c \in 1..MaxPluginCalls :
        pluginCalls[c].method \in ProgressMethods =>
            /\ Len(ProgressOf(c)) = pluginCalls[c].current
            /\ \A i \in 1..Len(ProgressOf(c)) :
                   /\ ProgressOf(c)[i].current = i
                   /\ ProgressOf(c)[i].total = pluginCalls[c].total
                   /\ ProgressOf(c)[i].percent \in 0..100
                   /\ i > 1 => ProgressOf(c)[i].percent >= ProgressOf(c)[i - 1].percent
            /\ \A r \in PostedAt(c, "resolve") :
                   /\ \A i \in PostedAt(c, "conversionProgress") : i < r
                   /\ mainLooper[r].success =>
                          /\ Len(ProgressOf(c)) = pluginCalls[c].total
                          /\ ProgressOf(c)[pluginCalls[c].total].percent = 100
            /\ pluginCalls[c].pc = "resolved" =>
                   \A i \in PostedAt(c, "conversionProgress") : i <= dispatched

\* a document of three pages converted and resolved: 33, 66 and 100 reported
C18_Witness ==
    \E c \in 1..MaxPluginCalls :
        /\ pluginCalls[c].method \in ProgressMethods
        /\ pluginCalls[c].pc = "resolved"
        /\ pluginCalls[c].result.success
        /\ [i \in 1..Len(ProgressOf(c)) |-> ProgressOf(c)[i].percent] = <<33, 66, 100>>

\* the step is the executor taking up the task of call c
Handling(c) == pluginCalls[c].pc = "queued" /\ pluginCalls'[c].pc # "queued"

\* call c is the first request of a conversion
FirstRequest(c) ==
    /\ pluginCalls[c].method \in ConversionMethods
    /\ \A d \in 1..(c - 1) : pluginCalls[d].method \notin ConversionMethods

\* call c is the first request of a conversion that came with its input
FirstRequestWithInput(c) ==
    /\ pluginCalls[c].method \in ConversionMethods /\ pluginCalls[c].hasInput
    /\ \A d \in 1..(c - 1) :
           ~(pluginCalls[d].method \in ConversionMethods /\ pluginCalls[d].hasInput)

InitFailed == initAttempted /\ converter # "ready"

\* the call is a conversion whose result says success: false with a message
FailedWithError(c) ==
    /\ pluginCalls[c].method \in ConversionMethods
    /\ ~pluginCalls[c].result.success
    /\ pluginCalls[c].result.error # ""

\* C22: once the initialization was attempted no step constructs the
\* converter again, whatever the attempt came to; and after an attempt that
\* failed, a conversion call that is made or taken up by the executor gets
\* success: false and an error message for its result, and every conversion
\* call handed to the executor is resolved, with that result.
C22_InitAttemptedOnce ==
    /\ [][initAttempted => (initAttempted' /\ converter' = converter)]_vars
    /\ [][\A c \in 1..MaxPluginCalls :
              (/\ InitFailed
               /\ pluginCalls[c].pc \in {"unused", "queued"}
               /\ pluginCalls'[c].pc \in {"posted", "resolved"}
               /\ pluginCalls'[c].method \in ConversionMethods) =>
                  /\ ~pluginCalls'[c].result.success
                  /\ pluginCalls'[c].result.error # ""]_vars
    /\ \A c \in 1..MaxPluginCalls :
           (InitFailed /\ pluginCalls[c].pc = "queued") ~>
               (pluginCalls[c].pc = "resolved" /\ FailedWithError(c))

\* the first conversion found the converter not ready, and the conversion
\* after it was resolved with the message of a converter that is not there
C22_Witness ==
    /\ InitFailed /\ converter = "notReady"
    /\ \A c \in 1..2 :
           /\ pluginCalls[c].hasInput
           /\ pluginCalls[c].pc = "resolved"
           /\ FailedWithError(c)
    /\ pluginCalls[2].result.error = notAvailable(pluginCalls[2].method)

-----------------------------------------------------------------------------
(* Properties of the shared files *)

\* the step hands the intent to handleIntent
Delivers(intent) == delivered' = delivered + 1 /\ handling'.intent = intent

\* the intent is a SEND or SEND_MULTIPLE with a type and the URI in its
\* stream, or a VIEW with the URI for its data
Carries(intent, uri) ==
    \/ /\ intent.action \in {"android.intent.action.SEND",
                             "android.intent.action.SEND_MULTIPLE"}
       /\ intent.type # ""
       /\ intent.hasStream
       /\ \E i \in 1..Len(intent.stream) : intent.stream[i] = uri
    \/ intent.action = "android.intent.action.VIEW" /\ intent.data = uri

\* C23: when an intent is delivered that carries a URI which was not
\* processed before, handleIntent goes on to pass that URI to
\* processSharedUri, whatever intents were handled earlier.
C23_NewUriPassed ==
    [][\A intent \in Intents, uri \in Uris :
           (/\ Delivers(intent)
            /\ Carries(intent, uri)
            /\ uriString(uri) \notin processedIntentUris) =>
               /\ handling'.pc = "busy"
               /\ \E i \in 1..Len(handling'.remaining) :
                      handling'.remaining[i] = uri]_vars

\* the paths that were added to pendingSharedImagePaths
Added == {opened[i].path : i \in {j \in 1..Len(opened) : opened[j].outcome = "copied"}}

\* C24: no URI has its stream opened and copied to the cache twice, and the
\* pending list holds only paths of files copied that way, each of them once,
\* whatever intents were delivered.
C24_UriProcessedOnce ==
    /\ \A i, j \in 1..Len(opened) : opened[i].uri = opened[j].uri => i = j
    /\ \A i, j \in 1..Len(opened) : opened[i].path = opened[j].path => i = j
    /\ \A k \in 1..Len(pendingSharedImagePaths) :
           /\ pendingSharedImagePaths[k] \in Added
           /\ \A l \in 1..Len(pendingSharedImagePaths) :
                  pendingSharedImagePaths[l] = pendingSharedImagePaths[k] => l = k

\* the same URI was passed to processSharedUri by two intents, and copied and
\* added to the pending list once
C24_Witness ==
    /\ delivered = 2 /\ handling.pc = "idle"
    /\ passedUris = <<1, 1>>
    /\ Len(opened) = 1 /\ opened[1].uri = 1
    /\ Len(pendingSharedImagePaths) = 1

\* the extension of the format of a MIME type of supportedMimes
FormatExtension(mime) ==
    CASE mime = ImagePng -> DotPng
      [] mime \in {ImageJpeg, ImageJpg} -> DotJpg
      [] mime = ImageWebp -> DotWebp
      [] mime = ImageGif -> DotGif
      [] mime = ImageBmp -> DotBmp
      [] mime = WordprocessingmlDocument -> DotDocx
      [] mime = ApplicationMsword -> DotDoc
      [] mime = PresentationmlPresentation -> DotPptx
      [] mime = MsPowerpoint -> DotPpt
      [] mime = SpreadsheetmlSheet -> DotXlsx
      [] mime = MsExcel -> DotXls
      [] mime = ApplicationPdf -> DotPdf

\* C25: a file of a MIME type of supportedMimes is stored in the cache under
\* the extension of its own format.
C25_ExtensionOfFormat ==
    \A i \in 1..Len(opened) :
        opened[i].mime \in supportedMimes =>
            extensionOfName(opened[i].path) = FormatExtension(opened[i].mime)

\* the step is a call of getSharedImage
SharedCall == Len(sharedResults') = Len(sharedResults) + 1

\* C26: a call of getSharedImage that finds pending paths and ends without
\* an exception leaves pendingSharedImagePaths empty; and no path is handed
\* back by two calls, or twice by one, however the calls fall between the
\* additions of MainActivity.
C26_PendingDrained ==
    /\ [][(/\ SharedCall
           /\ pendingSharedImagePaths # <<>>
           /\ ~sharedResults'[Len(sharedResults')].threw) =>
              pendingSharedImagePaths' = <<>>]_vars
    /\ [](\A a, b \in 1..Len(sharedResults) :
              \A i \in 1..Len(sharedResults[a].files),
                 j \in 1..Len(sharedResults[b].files) :
                  sharedResults[a].files[i].path = sharedResults[b].files[j].path =>
                      a = b /\ i = j)

\* one intent with two files: the first call of getSharedImage came between
\* the two additions and handed back the first file, the second call the
\* second file, and the list is empty
C26_Witness ==
    /\ delivered = 1
    /\ Len(sharedResults) = 2
    /\ Len(sharedResults[1].files) = 1 /\ Len(sharedResults[2].files) = 1
    /\ sharedResults[1].files[1].path = opened[1].path
    /\ sharedResults[2].files[1].path = opened[2].path
    /\ pendingSharedImagePaths = <<>>

\* C27: the skippedCount a call of getSharedImage reports is the number of
\* files the call skipped for their extension plus the number of files
\* processSharedUri skipped for their MIME type since the report before, and
\* skippedSharedCount is 0 after every report.
C27_SkippedCountTotal ==
    /\ \A r \in 1..Len(sharedResults) :
           sharedResults[r].reported =>
               sharedResults[r].skippedCount =
                   sharedResults[r].skippedInside + sharedResults[r].mimeSkipped
    /\ (sharedResults # <<>> /\ sharedResults[Len(sharedResults)].reported) =>
           skippedSharedCount = 0

\* the MIME type is null, or neither starts with image/ nor is in
\* supportedMimes
Unsupported(mime) ==
    \/ mime = NoMime
    \/ /\ ~HasAt(mime, <<"i", "m", "a", "g", "e", "/">>, 1)
       /\ mime \notin supportedMimes

\* the step is a call of processSharedUri with the URI
Processes(uri) == passedUris' = Append(passedUris, uri)

\* C28: a call of processSharedUri with a URI of an unsupported MIME type
\* opens no stream, writes no file to the cache and adds nothing to
\* pendingSharedImagePaths.
C28_UnsupportedNotLoaded ==
    [][\A uri \in Uris :
           (Processes(uri) /\ Unsupported(getType(uri))) =>
               /\ opened' = opened
               /\ cacheFiles' = cacheFiles
               /\ pendingSharedImagePaths' = pendingSharedImagePaths]_vars

\* a text file and a file of no known type were passed to processSharedUri
\* after a picture, and the picture alone was opened and stored
C28_Witness ==
    /\ \E i, j \in 1..Len(passedUris) :
           getType(passedUris[i]) = TextPlain /\ getType(passedUris[j]) = NoMime
    /\ mimeSkips = 2
    /\ Len(opened) = 1
    /\ cacheFiles = {opened[1].path}
    /\ pendingSharedImagePaths = <<opened[1].path>>

-----------------------------------------------------------------------------
(* Properties of the converter *)

\* C29: the page limit is within 10..150 for every amount of memory; a run
\* of convertToImageViaPdf or convertToImagesViaPdf on a PDF of more pages
\* than the limit ends with the exception and no page rendered, and no run
\* of these methods renders a page beyond the limit; a run of
\* convertToImagesViaPdfWithProgress is never ended for its page count and
\* hands back its pictures only when every page was rendered.
C29_PageLimit ==
    /\ \A availableMB \in AvailableMemory :
           calculateMaxPages(availableMB) \in 10..150
    /\ job.method \in LimitedMethods =>
           /\ job.pageCount > 0 => job.maxPages \in 10..150
           /\ job.pageCount > job.maxPages =>
                  /\ job.pc = "done" /\ job.outcome = "thrown"
                  /\ job.error = "too many pages"
                  /\ job.rendered = 0
           /\ job.rendered <= job.maxPages
    /\ job.method = "convertToImagesViaPdfWithProgress" =>
           /\ job.error # "too many pages"
           /\ job.outcome = "paths" => job.rendered = job.pageCount

\* a PDF of 11 pages was refused under a limit of 10 pages with nothing
\* rendered
C29_Witness ==
    /\ job.method \in LimitedMethods
    /\ job.pageCount = 11 /\ job.maxPages = 10
    /\ job.outcome = "thrown" /\ job.error = "too many pages"
    /\ job.rendered = 0

\* C30: in a run of convertToImageViaPdf that combines the pages, the total
\* height of the A4 pages rendered, which is the height of the combined
\* bitmap, is at most 30,000 pixels for every page count the limit lets
\* through.
C30_CombinedHeightWithinLimit ==
    (/\ job.method = "convertToImageViaPdf"
     /\ job.combinePages
     /\ job.pageCount <= job.maxPages
     /\ job.rendered = job.pageCount) =>
        job.totalHeight <= MaxBitmapHeight

\* C31: when a run of one of the three methods has ended, by success, by a
\* return of false or null or by an exception, a temporary PDF the converter
\* wrote is there no more; and the input of a run on a PDF is never deleted.
C31_TempPdfDeleted ==
    /\ job.pc = "done" => job.tempPdf # "exists"
    /\ job.isPdf => job.input = "exists"

=============================================================================
